---------------------------- MODULE Spec2Model ----------------------------
(***************************************************************************)
(* Model of sequelize-swagger-generator (src/lib/swagger.js and helpers).  *)
(*                                                                         *)
(* JavaScript values are represented as follows.                           *)
(*  - a string is a sequence of atoms; an atom is either a maximal run of  *)
(*    alphanumeric characters ("GET", "users", "5") or one punctuation     *)
(*    character (" ", "\n", "-", ":", ".", "/", ...).  split, trim,        *)
(*    toLowerCase and the regular expressions of the source are computed   *)
(*    on these sequences.                                                  *)
(*  - an object of fixed shape is a record; an object with computed keys   *)
(*    (paths, a path item, components.schemas, properties) is a function   *)
(*    whose domain is a set of strings; an array is a sequence.            *)
(*  - a call that may throw returns Ret(v) or Throw(kind).                 *)
(***************************************************************************)
EXTENDS Integers, Sequences, FiniteSets, TLC

VARIABLES
    pc,             \* "idle": no generateSpecAndMount call is active; "running": inside its loop
    schemas,        \* components.schemas, the module-level Schema Registry
    openapiObject,  \* the document of the current (or last) run
    models,         \* the models argument of the last generateSpecAndMount call
    runOptions,     \* the options argument of the last generateSpecAndMount call
    apiFiles,       \* number of files convertGlobPaths returned in this run
    filesRead,      \* number of parseApiFile calls made in this run (the loop index i)
    processed,      \* the annotation streams handled so far in this run, in order
    errors,         \* what console.error received in this run, in order
    thrown,         \* the error the last generateSpecAndMount call threw, or "none"
    runs,           \* number of generateSpecAndMount calls made by the process
    call            \* the last direct call of a pure function and its result

vars == <<pc, schemas, openapiObject, models, runOptions, apiFiles, filesRead, processed,
          errors, thrown, runs, call>>

-----------------------------------------------------------------------------
(* Bounds of the model *)

MaxRuns == 2
MaxFiles == 1
MaxStreams == 2
\* The depth of the call stack the model follows.
MaxDepth == 10

-----------------------------------------------------------------------------
(* Results and exceptions *)

Ret(v) == [val |-> v]
Throw(kind) == [throw |-> kind]
IsThrow(r) == "throw" \in DOMAIN r

-----------------------------------------------------------------------------
(* Strings *)

Whitespace == {" ", "\n", "\t"}

\* The empty object {} and the empty array [].
EmptyObject == <<>>

\* String.prototype.split(sep) for a one-character separator: the segments
\* between the occurrences of sep, empty segments included.
RECURSIVE SplitFrom(_, _, _, _)
SplitFrom(s, sep, i, cur) ==
    IF i > Len(s) THEN <<cur>>
    ELSE IF s[i] = sep THEN <<cur>> \o SplitFrom(s, sep, i + 1, <<>>)
    ELSE SplitFrom(s, sep, i + 1, Append(cur, s[i]))

Split(s, sep) == SplitFrom(s, sep, 1, <<>>)

\* String.prototype.trim()
RECURSIVE TrimLeft(_)
TrimLeft(s) ==
    IF s # <<>> /\ Head(s) \in Whitespace THEN TrimLeft(Tail(s)) ELSE s

RECURSIVE TrimRight(_)
TrimRight(s) ==
    IF s # <<>> /\ s[Len(s)] \in Whitespace
    THEN TrimRight(SubSeq(s, 1, Len(s) - 1)) ELSE s

Trim(s) == TrimRight(TrimLeft(s))

\* String.prototype.toLowerCase() on the atoms the model uses.
UpperAtoms ==
    [GET |-> "get", POST |-> "post", PUT |-> "put", DELETE |-> "delete"]

ToLowerCase(s) ==
    [i \in 1..Len(s) |-> IF s[i] \in DOMAIN UpperAtoms THEN UpperAtoms[s[i]] ELSE s[i]]


Str(atom) == <<atom>>

\* A JavaScript value that is a string, where a slot may also hold an object
\* (a compiled type argument is a string or a schema object).
StrVal(s) == [str |-> s]
IsStrVal(v) == "str" \in DOMAIN v

\* undefined, where a slot holds either undefined or an array.
Undefined == [undefined |-> TRUE]
Arr(list) == [list |-> list]
IsUndefined(v) == "undefined" \in DOMAIN v

-----------------------------------------------------------------------------
(* helpers: the reflection of Sequelize models into schemas *)

\* A Sequelize attribute is [fieldName, allowNull, primaryKey, type, length],
\* with allowNull and primaryKey one of "true", "false", "undefined", type the
\* name of the DataTypes constructor and length its _length; a model is
\* [name, rawAttributes].  The table holds the DataTypes the models use.

DataTypeTable ==
    [ BOOLEAN  |-> [type |-> Str("boolean")],
      INTEGER  |-> [type |-> Str("integer"), format |-> Str("int32")],
      BIGINT   |-> [type |-> Str("integer"), format |-> Str("int64")],
      STRING   |-> [type |-> Str("string")],
      DATE     |-> [type |-> Str("string"),  format |-> <<"date", "-", "time">>],
      DATEONLY |-> [type |-> Str("string"),  format |-> Str("date")],
      UUID     |-> [type |-> Str("string"),  format |-> Str("uuid")],
      JSON     |-> [type |-> Str("object")] ]

helpersConstructProperty(property) ==
    LET prop == [nullable |-> property.allowNull = "true",
                 readOnly |-> property.primaryKey = "true"]
    IN  IF property.type \notin DOMAIN DataTypeTable
        THEN EmptyObject
        ELSE IF property.type = "STRING"
        THEN [maxLength |-> property.length] @@ DataTypeTable[property.type] @@ prop
        ELSE DataTypeTable[property.type] @@ prop

RECURSIVE RefModelFrom(_, _, _)
RefModelFrom(attrs, i, accumulator) ==
    IF i > Len(attrs) THEN accumulator
    ELSE LET value == attrs[i]
             kept == IF "required" \in DOMAIN accumulator /\ Len(accumulator.required) > 0
                     THEN accumulator.required ELSE <<>>
             required == IF value.allowNull = "false"
                         THEN Append(kept, value.fieldName) ELSE kept
             old == IF "properties" \in DOMAIN accumulator
                    THEN accumulator.properties ELSE EmptyObject
             properties == (value.fieldName :> helpersConstructProperty(value)) @@ old
         IN  RefModelFrom(attrs, i + 1,
                          [required |-> required, properties |-> properties])

\* { [model.name]: refModel }
constructRefModel(model) ==
    model.name :> RefModelFrom(model.rawAttributes, 1, EmptyObject)

\* Object.values(models).reduce(...): a later model of the same name replaces
\* an earlier one.
RECURSIVE buildFromSequelize(_)
buildFromSequelize(ms) ==
    IF ms = <<>> THEN EmptyObject
    ELSE constructRefModel(ms[Len(ms)])
         @@ buildFromSequelize(SubSeq(ms, 1, Len(ms) - 1))

\* configuration.<key> || {}
OrEmpty(configuration, key) ==
    IF key \in DOMAIN configuration THEN configuration[key] ELSE EmptyObject

buildOpenAPI3Base(configuration) ==
    [openapi |-> <<"3", ".", "0", ".", "1">>,
     info |-> OrEmpty(configuration, "info"),
     servers |-> OrEmpty(configuration, "servers"),
     tags |-> OrEmpty(configuration, "tags"),
     paths |-> OrEmpty(configuration, "paths"),
     components |-> OrEmpty(configuration, "components")]

-----------------------------------------------------------------------------
(* The type expression compiler *)

\* Type-AST nodes, as doctrine produces them.
NameExpression(name) == [type |-> "NameExpression", name |-> name]
StringLiteralType(value) == [type |-> "StringLiteralType", value |-> value]
TypeApplication(expression, applications) ==
    [type |-> "TypeApplication", expression |-> expression, applications |-> applications]
OptionalType(expression) == [type |-> "OptionalType", expression |-> expression]
UnionType(elements) == [type |-> "UnionType", elements |-> elements]
NullLiteral == [type |-> "NullLiteral"]
AllLiteral == [type |-> "AllLiteral"]

simpleNameExpressions ==
    {Str("string"), Str("number"), Str("integer"), Str("boolean")}

\* The keys of typeConstructors.
typeConstructors ==
    {"StringLiteralType", "NameExpression", "Array", "Object", "Enum", "Date",
     "File", "OptionalType", "TypeApplication", "UnionType", "AllLiteral"}

\* Identifiers bound in the global scope of the evaluating function.
GlobalIdentifiers == {"undefined", "NaN", "Infinity", "Date", "Object", "Array"}
Digits == {"0", "1", "2", "3", "4", "5", "6", "7", "8", "9"}
Punctuation ==
    Whitespace \cup {"-", ":", ".", ",", "/", "[", "]", "'", "\"", "^", "$", "+", "*", "(", ")"}

\* isRegExp(string): the text is spliced into the source `new RegExp(<text>)`
\* and evaluated.  It is true when the text is empty, a number, a regular
\* expression literal /.../, a quoted pattern, or a bound global identifier;
\* an unbound identifier (ReferenceError), an expression over unbound
\* identifiers such as date-time, text that is no expression (SyntaxError)
\* and an object (spliced as [object Object]) give false.
isRegExp(v) ==
    IF ~IsStrVal(v) THEN FALSE
    ELSE LET s == v.str
         IN  \/ s = <<>>
             \/ Len(s) = 1 /\ s[1] \in Digits \cup GlobalIdentifiers
             \/ Len(s) >= 3 /\ s[1] = "/" /\ s[Len(s)] = "/"
                   /\ \A i \in 2..(Len(s) - 1) : s[i] \notin {"/", "\n", "(", ")", "[", "]", "*", "+"}
             \/ Len(s) >= 2 /\ s[1] = "'" /\ s[Len(s)] = "'"
                   /\ \A i \in 2..(Len(s) - 1) : s[i] \notin {"'", "\n", "(", ")", "[", "]", "*", "+"}

constructAllLiteral ==
    [nullable |-> TRUE,
     anyOf |-> << [type |-> Str("string")], [type |-> Str("number")],
                  [type |-> Str("integer")], [type |-> Str("boolean")],
                  [type |-> Str("array"), items |-> EmptyObject],
                  [type |-> Str("object")] >>]

\* JavaScript truthiness of a value held by an options object.
Truthy(v) ==
    CASE "str" \in DOMAIN v -> v.str # <<>>
      [] "num" \in DOMAIN v -> v.num # 0
      [] "bool" \in DOMAIN v -> v.bool
      [] "list" \in DOMAIN v -> TRUE
      [] OTHER -> FALSE

\* { ...value }: an object is copied, undefined gives {}, a string gives the
\* object of its characters.
Spread(v) ==
    IF IsUndefined(v) THEN EmptyObject
    ELSE IF IsStrVal(v) THEN [characters |-> v.str]
    ELSE v

RECURSIVE constructPropertyType(_, _, _, _)
RECURSIVE constructNameExpression(_, _, _, _)
RECURSIVE compileAll(_, _, _)
RECURSIVE constructObjectProperties(_, _, _, _)

\* applications.map((application) => constructPropertyType(application, field, options)):
\* the compiled values in order, or the first error thrown.
compileAll(list, field, options) ==
    IF list = <<>> THEN Ret(<<>>)
    ELSE LET first == constructPropertyType(Head(list), field, options, Undefined)
         IN  IF IsThrow(first) THEN first
             ELSE LET rest == compileAll(Tail(list), field, options)
                  IN  IF IsThrow(rest) THEN rest
                      ELSE Ret(<<first.val>> \o rest.val)

constructStringLiteralType(type) ==
    IF "value" \in DOMAIN type THEN Ret(StrVal(type.value)) ELSE Ret(Undefined)

\* An array whose items are left empty.
constructArrayWithoutItems(type, field, options, applications) ==
    Ret([type |-> Str("array"), items |-> EmptyObject])

\* The reduce keeps the value compiled for the last application ({} when
\* there is none); every application is compiled.
constructArray(type, field, options, applications) ==
    IF IsUndefined(applications) THEN Throw("TypeError")
    ELSE LET all == compileAll(applications.list, field, options)
         IN  IF IsThrow(all) THEN all
             ELSE Ret([type |-> Str("array"),
                       items |-> IF all.val = <<>> THEN EmptyObject
                                 ELSE all.val[Len(all.val)]])

constructObjectProperties(list, field, options, accumulator) ==
    IF list = <<>> THEN Ret(accumulator)
    ELSE LET application == Head(list)
         IN  IF \/ "expression" \notin DOMAIN application
                \/ "applications" \notin DOMAIN application
             THEN Throw("TypeError")
             ELSE LET all == compileAll(application.applications, field, options)
                  IN  IF IsThrow(all) THEN all
                      ELSE constructObjectProperties(Tail(list), field, options,
                             (application.expression.name :>
                                 (IF all.val = <<>> THEN EmptyObject
                                  ELSE all.val[Len(all.val)])) @@ accumulator)

constructObject(type, field, options, applications) ==
    IF IsUndefined(applications) THEN Throw("TypeError")
    ELSE LET properties == constructObjectProperties(applications.list, field, options, EmptyObject)
         IN  IF IsThrow(properties) THEN properties
             ELSE Ret([type |-> Str("object"), properties |-> properties.val])

constructEnum(type, field, options, applications) ==
    IF ~IsUndefined(applications) /\ Len(applications.list) > 0
    THEN LET all == compileAll(applications.list, field, options)
         IN  IF IsThrow(all) THEN all
             ELSE Ret([type |-> Str("string"), enum |-> all.val])
    ELSE Ret([type |-> Str("string"),
              enum |-> IF "items" \in DOMAIN options /\ Truthy(options.items)
                       THEN options.items ELSE <<>>])

\* { type: 'string', format: <compiled argument> } for each argument
StringFormats(values) ==
    [i \in 1..Len(values) |-> [type |-> Str("string"), format |-> values[i]]]

\* Without type arguments: { type: 'string' } and options.format when truthy.
PlainStringType(options) ==
    IF "format" \in DOMAIN options /\ Truthy(options.format)
    THEN [type |-> Str("string"), format |-> options.format]
    ELSE [type |-> Str("string")]

constructDate(type, field, options, applications) ==
    IF ~IsUndefined(applications) /\ Len(applications.list) > 0
    THEN LET all == compileAll(applications.list, field, options)
         IN  IF IsThrow(all) THEN all
             ELSE Ret([anyOf |-> StringFormats(all.val)])
    ELSE Ret(PlainStringType(options))

\* A file compiled the way a date is.
constructFileAsDate(type, field, options, applications) ==
    IF ~IsUndefined(applications) /\ Len(applications.list) > 0
    THEN LET all == compileAll(applications.list, field, options)
         IN  IF IsThrow(all) THEN all
             ELSE Ret([anyOf |-> StringFormats(all.val)])
    ELSE Ret(PlainStringType(options))

constructFile(type, field, options, applications) ==
    IF ~IsUndefined(applications) /\ Len(applications.list) > 0
    THEN LET all == compileAll(applications.list, field, options)
         IN  IF IsThrow(all) THEN all
             ELSE IF Len(applications.list) = 1 THEN Ret(StringFormats(all.val)[1])
             ELSE Ret([oneOf |-> StringFormats(all.val)])
    ELSE Ret(PlainStringType(options))

constructOptionalType(type, field, options, applications) ==
    LET inner == constructPropertyType(
                    IF "expression" \in DOMAIN type THEN type.expression ELSE Undefined,
                    field, options, Undefined)
    IN  IF IsThrow(inner) THEN inner ELSE Ret(Spread(inner.val))

constructTypeApplication(type, field, options, applications) ==
    LET inner == constructPropertyType(
                    IF "expression" \in DOMAIN type THEN type.expression ELSE Undefined,
                    field, options,
                    IF "applications" \in DOMAIN type THEN Arr(type.applications) ELSE Undefined)
    IN  IF IsThrow(inner) THEN inner ELSE Ret(Spread(inner.val))

\* The non-null elements of a union, in order.
NonNullElements(elements) ==
    SelectSeq(elements, LAMBDA element : element.type # "NullLiteral")

\* A union that never sees its null branch.
HasNullLiteralNever(elements) == FALSE

HasNullLiteral(elements) ==
    \E i \in 1..Len(elements) : elements[i].type = "NullLiteral"

constructUnionType(type, field, options, applications) ==
    IF "elements" \notin DOMAIN type THEN Throw("TypeError")
    ELSE LET elements == NonNullElements(type.elements)
             nullable == [nullable |-> HasNullLiteral(type.elements)]
         IN  IF Len(elements) > 1
             THEN LET all == compileAll(elements, field, options)
                  IN  IF IsThrow(all) THEN all
                      ELSE Ret([anyOf |-> all.val] @@ nullable)
             ELSE LET one == constructPropertyType(
                                IF elements = <<>> THEN Undefined ELSE elements[1],
                                field, options, Undefined)
                  IN  IF IsThrow(one) THEN one
                      ELSE Ret(nullable @@ Spread(one.val))

\* typeConstructors[key](type, field, options, applications)
Dispatch(key, type, field, options, applications) ==
    CASE key = "StringLiteralType" -> constructStringLiteralType(type)
      [] key = "NameExpression" -> constructNameExpression(type, field, options, applications)
      [] key = "Array" -> constructArray(type, field, options, applications)
      [] key = "Object" -> constructObject(type, field, options, applications)
      [] key = "Enum" -> constructEnum(type, field, options, applications)
      [] key = "Date" -> constructDate(type, field, options, applications)
      [] key = "File" -> constructFile(type, field, options, applications)
      [] key = "OptionalType" -> constructOptionalType(type, field, options, applications)
      [] key = "TypeApplication" -> constructTypeApplication(type, field, options, applications)
      [] key = "UnionType" -> constructUnionType(type, field, options, applications)
      [] key = "AllLiteral" -> Ret(constructAllLiteral)

\* A primitive name: { type: name }, or for string with type arguments one
\* { type, pattern | format } per argument.
PatternOrFormat(name, value) ==
    IF isRegExp(value) THEN [type |-> name, pattern |-> value]
    ELSE [type |-> name, format |-> value]

\* A primitive name that copies the options into its schema.
constructSimpleNameWithOptions(type, field, options, applications) ==
    Ret(options @@ [type |-> type.name])

constructSimpleName(type, field, options, applications) ==
    IF ~IsUndefined(applications) /\ Len(applications.list) > 0 /\ type.name = Str("string")
    THEN LET all == compileAll(applications.list, field, options)
         IN  IF IsThrow(all) THEN all
             ELSE IF Len(applications.list) = 1
             THEN Ret(PatternOrFormat(type.name, all.val[1]))
             ELSE Ret([oneOf |-> [i \in 1..Len(all.val) |->
                                    PatternOrFormat(type.name, all.val[i])]])
    ELSE Ret([type |-> type.name])

RefPrefix == "#/components/schemas/"
RefProperties == "/properties/"

\* A model reference that does not look the property up in the model.
constructModelReferenceUnchecked(registry, type, field) ==
    IF Split(type.name, ".")[1] \notin DOMAIN registry
    THEN Throw("UnknownModel")
    ELSE IF Len(Split(type.name, ".")) >= 2 /\ Split(type.name, ".")[2] # <<>>
    THEN Ret("$ref" :> (<<RefPrefix>> \o Split(type.name, ".")[1]
                        \o <<RefProperties>> \o Split(type.name, ".")[2]))
    ELSE Ret("$ref" :> (<<RefPrefix>> \o Split(type.name, ".")[1]))

\* A name that is neither primitive nor a key of typeConstructors: a
\* reference to a model of the registry or to one of its properties.
constructModelReference(registry, type, field) ==
    LET segments == Split(type.name, ".")
        model == segments[1]
        hasProperty == Len(segments) >= 2 /\ segments[2] # <<>>
        modelProperty == segments[2]
    IN  IF model # <<>> /\ model \notin DOMAIN registry
        THEN Throw("UnknownModel")
        ELSE IF hasProperty /\ model \notin DOMAIN registry
        THEN Throw("TypeError")
        ELSE IF hasProperty /\ "properties" \notin DOMAIN registry[model]
        THEN Throw("TypeError")
        ELSE IF hasProperty /\ modelProperty \notin DOMAIN registry[model].properties
        THEN Throw("UnknownModelProperty")
        ELSE IF hasProperty
        THEN Ret("$ref" :> (<<RefPrefix>> \o model \o <<RefProperties>> \o modelProperty))
        ELSE Ret("$ref" :> (<<RefPrefix>> \o model))

\* A name-reference named NameExpression dispatches to constructNameExpression
\* with the same arguments, without end: the engine ends the call with a
\* RangeError (call stack exhausted).
constructNameExpression(type, field, options, applications) ==
    IF type.name \in simpleNameExpressions
    THEN constructSimpleName(type, field, options, applications)
    ELSE IF Len(type.name) = 1 /\ type.name[1] \in typeConstructors
    THEN IF type.name[1] = "NameExpression"
         THEN Throw("RangeError")
         ELSE Dispatch(type.name[1], type, field, options, applications)
    ELSE constructModelReference(schemas, type, field)

constructPropertyType(type, field, options, applications) ==
    IF "type" \notin DOMAIN type THEN Throw("TypeError")
    ELSE IF type.type \notin typeConstructors THEN Throw("TypeError")
    ELSE Dispatch(type.type, type, field, options, applications)

-----------------------------------------------------------------------------
(* The option grammar parser *)

IsAlnum(atom) == atom \notin Punctuation

\* The decimal integers the descriptions use, as Number() reads them.
NumberAtoms ==
    ("0" :> 0) @@ ("1" :> 1) @@ ("2" :> 2) @@ ("3" :> 3) @@ ("5" :> 5) @@ ("10" :> 10)

NumVal(n) == [num |-> n]
NaN == [nan |-> TRUE]
BoolVal(b) == [bool |-> b]
Null == [null |-> TRUE]

\* String.prototype.replace(/[']/g, '"') and replace('\'', '"')
ReplaceAllQuotes(s) == [i \in 1..Len(s) |-> IF s[i] = "'" THEN "\"" ELSE s[i]]

ReplaceFirstQuote(s) ==
    [i \in 1..Len(s) |->
        IF s[i] = "'" /\ \A j \in 1..(i - 1) : s[j] # "'" THEN "\"" ELSE s[i]]

\* JSON.parse of a scalar: a number, true, false, null or a quoted string.
JSONScalar(s) ==
    LET t == Trim(s)
    IN  IF Len(t) = 1 /\ t[1] \in DOMAIN NumberAtoms THEN Ret(NumVal(NumberAtoms[t[1]]))
        ELSE IF Len(t) = 2 /\ t[1] = "-" /\ t[2] \in DOMAIN NumberAtoms /\ t[2] # "0"
        THEN Ret(NumVal(0 - NumberAtoms[t[2]]))
        ELSE IF t = Str("true") THEN Ret(BoolVal(TRUE))
        ELSE IF t = Str("false") THEN Ret(BoolVal(FALSE))
        ELSE IF t = Str("null") THEN Ret(Null)
        ELSE IF /\ Len(t) >= 2 /\ t[1] = "\"" /\ t[Len(t)] = "\""
                /\ \A i \in 2..(Len(t) - 1) : t[i] \notin {"\"", "\n"}
        THEN Ret(StrVal(SubSeq(t, 2, Len(t) - 1)))
        ELSE Throw("SyntaxError")

RECURSIVE JSONElements(_)
JSONElements(parts) ==
    IF parts = <<>> THEN Ret(<<>>)
    ELSE LET first == JSONScalar(Head(parts))
         IN  IF IsThrow(first) THEN first
             ELSE LET rest == JSONElements(Tail(parts))
                  IN  IF IsThrow(rest) THEN rest
                      ELSE Ret(<<first.val>> \o rest.val)

\* JSON.parse(text) for a scalar or an array of scalars (quoted strings
\* hold no comma); any other text is a SyntaxError.
JSONparse(s) ==
    LET t == Trim(s)
    IN  IF Len(t) >= 2 /\ t[1] = "[" /\ t[Len(t)] = "]"
        THEN LET inner == SubSeq(t, 2, Len(t) - 1)
             IN  IF Trim(inner) = <<>> THEN Ret(Arr(<<>>))
                 ELSE LET elements == JSONElements(Split(inner, ","))
                      IN  IF IsThrow(elements) THEN elements
                          ELSE Ret(Arr(elements.val))
        ELSE JSONScalar(t)

\* new Number(value).valueOf(): value is a string or undefined.
Number(value) ==
    IF IsUndefined(value) THEN NaN
    ELSE LET t == Trim(value.str)
         IN  IF t = <<>> THEN NumVal(0)
             ELSE IF Len(t) = 1 /\ t[1] \in DOMAIN NumberAtoms THEN NumVal(NumberAtoms[t[1]])
             ELSE IF Len(t) = 2 /\ t[1] = "-" /\ t[2] \in DOMAIN NumberAtoms
             THEN NumVal(0 - NumberAtoms[t[2]])
             ELSE NaN

\* Number.prototype.toFixed(): the decimal text of an integer, "NaN" for NaN.
ToFixed(n) ==
    IF "nan" \in DOMAIN n THEN StrVal(Str("NaN"))
    ELSE IF n.num < 0
    THEN StrVal(<<"-", CHOOSE a \in DOMAIN NumberAtoms : NumberAtoms[a] = 0 - n.num>>)
    ELSE StrVal(Str(CHOOSE a \in DOMAIN NumberAtoms : NumberAtoms[a] = n.num))

\* typeof value === 'undefined' ? true : value === 'true'
TrueUnlessGiven(value) ==
    IF IsUndefined(value) THEN BoolVal(TRUE) ELSE BoolVal(value.str = Str("true"))

ValidLocations == {Str("query"), Str("path"), Str("body"), Str("headers")}

CompositionKeywords == {"not", "allOf", "anyOf", "oneOf"}

keywordsObjectKeys ==
    {"in", "description", "not", "deprecated", "discriminator", "example",
     "externalDocs", "nullable", "readOnly", "writeOnly", "xml", "required",
     "oneOf", "allOf", "anyOf"}

keywordsParameterKeys ==
    {"title", "format", "pattern", "enum", "minimum", "maximum",
     "exclusiveMinimum", "exclusiveMaximum", "multipleOf", "minLength",
     "maxLength", "minItems", "maxItems", "uniqueItems", "minProperties",
     "maxProperties"}

\* keywordsObject.in
\* A location check that also admits cookie.
keywordsObjectInWithCookie(value) ==
    IF IsStrVal(value) /\ value.str \in ValidLocations \cup {Str("cookie")}
    THEN Ret(value) ELSE Throw("InvalidLocation")

keywordsObjectIn(value) ==
    IF IsStrVal(value) /\ value.str \in ValidLocations
    THEN Ret(value) ELSE Throw("InvalidLocation")

\* keywordsObject[key](value) for the keys that are not composition keywords
keywordsObject(key, value) ==
    CASE key = "in" -> keywordsObjectIn(value)
      [] key = "deprecated" -> Ret(BoolVal(TRUE))
      [] key \in {"nullable", "readOnly", "writeOnly"} -> Ret(TrueUnlessGiven(value))
      [] key = "required" ->
            IF IsUndefined(value) THEN Throw("TypeError")
            ELSE JSONparse(ReplaceFirstQuote(value.str))
      [] OTHER -> Ret(value)

\* keywordsParameter[key](value)
keywordsParameter(key, value) ==
    CASE key = "enum" ->
            IF IsUndefined(value) THEN Throw("TypeError")
            ELSE JSONparse(ReplaceAllQuotes(value.str))
      [] key \in {"minimum", "maximum", "multipleOf"} -> Ret(Number(value))
      [] key \in {"exclusiveMinimum", "exclusiveMaximum", "uniqueItems"} ->
            Ret(TrueUnlessGiven(value))
      [] key \in {"minLength", "maxLength", "minItems", "maxItems",
                  "minProperties", "maxProperties"} -> Ret(ToFixed(Number(value)))
      [] OTHER -> Ret(value)

\* An object whose keys are written in an order that is read back (for key
\* in store): the keys in insertion order and the value of each.
EmptyStore == [keys |-> <<>>, vals |-> EmptyObject]
Has(store, key) == key \in DOMAIN store.vals
Put(store, key, value) ==
    [keys |-> IF Has(store, key) THEN store.keys ELSE Append(store.keys, key),
     vals |-> (key :> value) @@ store.vals]

NoLevel == "undefined"

\* The first position at or after i where the whitespace run ends.
RECURSIVE SkipWhitespace(_, _)
SkipWhitespace(s, i) ==
    IF i <= Len(s) /\ s[i] \in Whitespace THEN SkipWhitespace(s, i + 1) ELSE i

\* /([\n]{1}[\s]*[-]{1}[\s]*)/gm matches at i: a line break, any white
\* space, a dash.  The value is the position after the match (the white
\* space after the dash included), or 0 when there is no match at i.
DashEnd(s, dash) ==
    IF dash <= Len(s) /\ s[dash] = "-" THEN SkipWhitespace(s, dash + 1) ELSE 0

BulletEnd(s, i) ==
    IF s[i] # "\n" THEN 0 ELSE DashEnd(s, SkipWhitespace(s, i + 1))

\* description.replace(optionsRegExp, separator).split(separator)
RECURSIVE SplitBulletsFrom(_, _, _)
RECURSIVE SplitBulletsAt(_, _, _, _)
SplitBulletsFrom(s, i, cur) ==
    IF i > Len(s) THEN <<cur>>
    ELSE SplitBulletsAt(s, i, cur, BulletEnd(s, i))

SplitBulletsAt(s, i, cur, end) ==
    IF end # 0 THEN <<cur>> \o SplitBulletsFrom(s, end, <<>>)
    ELSE SplitBulletsFrom(s, i + 1, Append(cur, s[i]))

SplitBullets(s) == SplitBulletsFrom(s, 1, <<>>)

\* /(^[a-zA-Z0-9]*:{1})/m matches at i: the start of a line, an
\* alphanumeric run (possibly empty), a colon.  The value is the position
\* after the match, or 0.
KeyEnd(s, i) ==
    IF ~(i = 1 \/ s[i - 1] = "\n") THEN 0
    ELSE IF s[i] = ":" THEN i + 1
    ELSE IF IsAlnum(s[i]) /\ i + 1 <= Len(s) /\ s[i + 1] = ":" THEN i + 2
    ELSE 0

\* option.split(optionKeyRegExp): the text between the matches and, the
\* pattern being a capture group, the matches themselves.
RECURSIVE SplitKeysFrom(_, _, _)
RECURSIVE SplitKeysAt(_, _, _, _)
SplitKeysFrom(s, i, cur) ==
    IF i > Len(s) THEN <<cur>>
    ELSE SplitKeysAt(s, i, cur, KeyEnd(s, i))

SplitKeysAt(s, i, cur, end) ==
    IF end # 0 THEN <<cur, SubSeq(s, i, end - 1)>> \o SplitKeysFrom(s, end, <<>>)
    ELSE SplitKeysFrom(s, i + 1, Append(cur, s[i]))

SplitKeys(s) == SelectSeq(SplitKeysFrom(s, 1, <<>>), LAMBDA piece : piece # <<>>)

\* optionKeyRegExp.test(key), key being a piece of the split or undefined
TestKey(piece) ==
    \E i \in 1..Len(piece) : KeyEnd(piece, i) # 0

\* The [key, value] pair made of the first two pieces of one segment: the
\* colon is taken from a key and its value trimmed.
KeyValueOf(pieces) ==
    IF pieces = <<>> THEN [key |-> Undefined, value |-> Undefined]
    ELSE IF TestKey(pieces[1])
    THEN [key |-> StrVal(IF pieces[1][Len(pieces[1])] = ":"
                         THEN SubSeq(pieces[1], 1, Len(pieces[1]) - 1) ELSE pieces[1]),
          value |-> IF Len(pieces) >= 2 THEN StrVal(Trim(pieces[2])) ELSE Undefined]
    ELSE [key |-> StrVal(pieces[1]),
          value |-> IF Len(pieces) >= 2 THEN StrVal(pieces[2]) ELSE Undefined]

\* The key as a property name of the keyword tables.
IsKeyIn(key, table) ==
    IsStrVal(key) /\ Len(key.str) = 1 /\ key.str[1] \in table

\* [coerced, ...accumulator[key]] or [coerced]
Prepend(store, key, coerced) ==
    Put(store, key,
        IF Has(store, key) THEN <<coerced>> \o store.vals[key] ELSE <<coerced>>)

\* A scalar constraint keyword whose coerced value always goes to the top
\* level.
accumulateParameterAtTopLevel(accumulator, name, coerced) ==
    IF IsThrow(coerced) THEN coerced
    ELSE Ret([store |-> Prepend(accumulator.store, name, coerced.val),
              level |-> accumulator.level])

\* A scalar constraint keyword: its coerced value goes to the top level or
\* to the open composition.
accumulateParameter(accumulator, name, coerced) ==
    IF IsThrow(coerced) THEN coerced
    ELSE IF accumulator.level = NoLevel
    THEN Ret([store |-> Prepend(accumulator.store, name, coerced.val),
              level |-> accumulator.level])
    ELSE Ret([store |-> Put(accumulator.store, accumulator.level,
                            Prepend(accumulator.store.vals[accumulator.level],
                                    name, coerced.val)),
              level |-> accumulator.level])

\* The body of the reduce of optionsReducer for one [key, value] pair.
optionPair(accumulator, key, value) ==
    IF IsKeyIn(key, keywordsObjectKeys)
    THEN IF key.str[1] \in CompositionKeywords
         THEN Ret([store |-> Put(accumulator.store, key.str[1], EmptyStore),
                   level |-> key.str[1]])
         ELSE Ret([store |-> Put(accumulator.store, key.str[1], value),
                   level |-> accumulator.level])
    ELSE IF IsKeyIn(key, keywordsParameterKeys)
    THEN accumulateParameter(accumulator, key.str[1], keywordsParameter(key.str[1], value))
    ELSE Ret([store |-> Put(accumulator.store, "description", key),
              level |-> accumulator.level])

optionKeyValue(accumulator, pair) == optionPair(accumulator, pair.key, pair.value)

\* One step of the reduce of optionsReducer.
optionStep(accumulator, option) ==
    optionKeyValue(accumulator, KeyValueOf(SplitKeys(option)))

RECURSIVE optionsReduce(_, _)
optionsReduce(accumulator, optionsArray) ==
    IF optionsArray = <<>> THEN Ret(accumulator)
    ELSE LET next == optionStep(accumulator, Head(optionsArray))
         IN  IF IsThrow(next) THEN next
             ELSE optionsReduce(next.val, Tail(optionsArray))

\* description is a string, or undefined when the tag has none.
optionsReducer(description) ==
    IF IsUndefined(description) THEN Throw("TypeError")
    ELSE optionsReduce([store |-> EmptyStore, level |-> NoLevel],
                       SplitBullets(description.str))

\* option.map((variant) => levelStore[levelKey].push({ [key]: variant }))
PushVariants(levelStore, levelKey, key, option) ==
    LET old == IF levelKey \in DOMAIN levelStore /\ ~IsUndefined(levelStore[levelKey])
               THEN levelStore[levelKey].list ELSE <<>>
    IN  (levelKey :> Arr(old \o [i \in 1..Len(option) |-> (key :> option[i])]))
        @@ levelStore

RECURSIVE constructOptionsFrom(_, _, _, _)

\* The loop of constructOptions from the i-th key of store on.
constructOptionsFrom(store, level, i, levelStore) ==
    IF i > Len(store.keys) THEN Ret(levelStore)
    ELSE LET key == store.keys[i]
             option == store.vals[key]
             levelKey == IF level = NoLevel THEN "anyOf" ELSE level
         IN  IF key \in keywordsParameterKeys
             THEN IF level # NoLevel \/ Len(option) # 1
                  THEN constructOptionsFrom(store, level, i + 1,
                           PushVariants(levelStore, levelKey, key, option))
                  ELSE constructOptionsFrom(store, level, i + 1,
                           (key :> option[1]) @@ levelStore)
             ELSE IF key \in {"allOf", "anyOf", "oneOf"}
             THEN LET nested == constructOptionsFrom(option, key, 1, EmptyObject)
                  IN  IF IsThrow(nested) THEN nested
                      ELSE constructOptionsFrom(store, level, i + 1,
                               (key :> (IF key \in DOMAIN nested.val
                                        THEN nested.val[key] ELSE Undefined))
                               @@ levelStore)
             ELSE IF key = "not"
             THEN LET nested == constructOptionsFrom(option, NoLevel, 1, EmptyObject)
                  IN  IF IsThrow(nested) THEN nested
                      ELSE constructOptionsFrom(store, level, i + 1,
                               (key :> nested.val) @@ levelStore)
             ELSE LET made == keywordsObject(key, option)
                  IN  IF IsThrow(made) THEN made
                      ELSE constructOptionsFrom(store, level, i + 1,
                               (key :> made.val) @@ levelStore)

constructOptions(store, level) == constructOptionsFrom(store, level, 1, EmptyObject)

\* constructOptions(optionsReducer(description))
constructReduced(reduced) ==
    IF IsThrow(reduced) THEN reduced
    ELSE constructOptions(reduced.val.store, NoLevel)

parseOptions(description) == constructReduced(optionsReducer(description))

-----------------------------------------------------------------------------
(* The document assembler *)

\* A tag of an annotation stream is [title, description, name, type]; a slot
\* doctrine leaves empty holds Undefined.

\* A descriptor that marks every param required.
propertyOfTypeAlwaysRequired(type, in, field, propertyType) ==
    IF IsThrow(propertyType) THEN propertyType
    ELSE Ret([property |-> ((IF IsUndefined(field) THEN Str("undefined") ELSE field.str)
                            :> propertyType.val),
              required |-> TRUE,
              in |-> in])

\* The property descriptor, given the compiled type of the param.
propertyOfType(type, in, field, propertyType) ==
    IF IsThrow(propertyType) THEN propertyType
    ELSE Ret([property |-> ((IF IsUndefined(field) THEN Str("undefined") ELSE field.str)
                            :> propertyType.val),
              required |-> type.type # "OptionalType",
              in |-> in])

\* constructProperty after the options are built: the location check and
\* the compilation of the type.
propertyWithOptions(param, in, field, options) ==
    IF IsThrow(options) THEN options
    ELSE IF in \notin ValidLocations THEN Throw("InvalidLocation")
    ELSE IF IsUndefined(param.type) THEN Throw("TypeError")
    ELSE propertyOfType(param.type, in, field,
                        constructPropertyType(param.type, field, options.val, Undefined))

\* const [$in, field] = name.split('.')
propertyOfName(param, segments) ==
    propertyWithOptions(param, segments[1],
                        IF Len(segments) >= 2 THEN StrVal(segments[2]) ELSE Undefined,
                        parseOptions(param.description))

constructProperty(param) ==
    IF IsUndefined(param.name) THEN Throw("TypeError")
    ELSE propertyOfName(param, Split(param.name.str, "."))

\* split[0].toLowerCase() || 'get', split[1] || ''
routeOf(split) ==
    [method |-> IF split[1] = <<>> THEN Str("get") ELSE ToLowerCase(split[1]),
     uri |-> IF Len(split) >= 2 THEN split[2] ELSE <<>>]

parseRoute(str) == routeOf(Split(str, " "))

\* description.replace('/**', ''): the first occurrence is removed.
RECURSIVE RemoveCommentOpen(_)
RemoveCommentOpen(s) ==
    IF Len(s) < 3 THEN s
    ELSE IF SubSeq(s, 1, 3) = <<"/", "*", "*">> THEN SubSeq(s, 4, Len(s))
    ELSE <<Head(s)>> \o RemoveCommentOpen(Tail(s))

parseDescription(obj) ==
    IF IsUndefined(obj.description) THEN <<>>
    ELSE RemoveCommentOpen(obj.description.str)

\* The description of the first group tag split on "-", or ['default', ''];
\* a group tag without description makes split throw.
tagOf(groups) ==
    IF groups = <<>> THEN Ret(<<Str("default"), <<>>>>)
    ELSE IF IsUndefined(groups[1].description) THEN Throw("TypeError")
    ELSE Ret(Split(groups[1].description.str, "-"))

parseTag(tags) == tagOf(SelectSeq(tags, LAMBDA tag : tag.title = "group"))

\* The operation a route tag opens.
currentMethod(tag, desc) ==
    [tags |-> <<Trim(tag[1])>>,
     parameters |-> <<>>,
     requestBody |-> [description |-> desc, content |-> EmptyObject]]

\* The locals { route, paths, tags } of fileFormat after a route tag.
openRoute(local, route, tag, desc) ==
    IF IsThrow(tag) THEN tag
    ELSE Ret([route |-> route,
              paths |-> (route.uri :>
                           ((route.method :> currentMethod(tag.val, desc))
                            @@ (IF route.uri \in DOMAIN local.paths
                                THEN local.paths[route.uri] ELSE EmptyObject)))
                        @@ local.paths,
              tags |-> Append(local.tags,
                              [name |-> Trim(tag.val[1]),
                               description |-> IF Len(tag.val) >= 2
                                               THEN Trim(tag.val[2]) ELSE <<>>])])

\* The locals after a param tag: the property is built and not attached.
afterParam(local, property) ==
    IF IsThrow(property) THEN property ELSE Ret(local)

\* A loop that handles a param tag whether or not a route is open.
fileFormatTagParamAnywhere(comments, local, tag) ==
    IF tag.title = "route"
    THEN IF IsUndefined(tag.description) THEN Throw("TypeError")
         ELSE openRoute(local, parseRoute(tag.description.str), parseTag(comments.tags),
                        parseDescription(comments))
    ELSE IF tag.title = "param"
    THEN afterParam(local, constructProperty(tag))
    ELSE Ret(local)

RECURSIVE fileFormatFrom(_, _, _)

\* What one tag does to the locals of fileFormat.
fileFormatTag(comments, local, tag) ==
    IF tag.title = "route"
    THEN IF IsUndefined(tag.description) THEN Throw("TypeError")
         ELSE openRoute(local, parseRoute(tag.description.str), parseTag(comments.tags),
                        parseDescription(comments))
    ELSE IF tag.title = "param" /\ ~IsUndefined(local.route)
    THEN afterParam(local, constructProperty(tag))
    ELSE Ret(local)

fileFormatNext(comments, next, j) ==
    IF IsThrow(next) THEN next ELSE fileFormatFrom(comments, next.val, j)

fileFormatFrom(comments, local, j) ==
    IF j > Len(comments.tags) THEN Ret([paths |-> local.paths, tags |-> local.tags])
    ELSE fileFormatNext(comments, fileFormatTag(comments, local, comments.tags[j]), j + 1)

fileFormat(comments) ==
    fileFormatFrom(comments, [route |-> Undefined, paths |-> EmptyObject, tags |-> <<>>], 1)

\* deepmerge (the npm package the module requires): arrays are concatenated,
\* objects are merged key by key, anything else is replaced by the source.
deepmergeOperation(x, y) ==
    [tags |-> x.tags \o y.tags,
     parameters |-> x.parameters \o y.parameters,
     requestBody |-> [description |-> y.requestBody.description,
                      content |-> y.requestBody.content @@ x.requestBody.content]]

\* A shallow merge: the later path item replaces the earlier one.
deepmergePathItemShallow(x, y) == y

deepmergePathItem(x, y) ==
    [method \in DOMAIN x \cup DOMAIN y |->
        IF method \in DOMAIN x /\ method \in DOMAIN y
        THEN deepmergeOperation(x[method], y[method])
        ELSE IF method \in DOMAIN y THEN y[method] ELSE x[method]]

deepmerge(x, y) ==
    [uri \in DOMAIN x \cup DOMAIN y |->
        IF uri \in DOMAIN x /\ uri \in DOMAIN y
        THEN deepmergePathItem(x[uri], y[uri])
        ELSE IF uri \in DOMAIN y THEN y[uri] ELSE x[uri]]

-----------------------------------------------------------------------------
(* Inputs *)

Attribute(fieldName, type, allowNull, primaryKey) ==
    [fieldName |-> Str(fieldName), type |-> type, allowNull |-> allowNull,
     primaryKey |-> primaryKey, length |-> 255]

UserModel ==
    [name |-> Str("User"),
     rawAttributes |-> << Attribute("id", "INTEGER", "false", "true"),
                          Attribute("firstName", "STRING", "false", "undefined"),
                          Attribute("lastName", "STRING", "undefined", "undefined") >>]

PointModel ==
    [name |-> Str("Point"),
     rawAttributes |-> << Attribute("x", "INTEGER", "false", "undefined"),
                          Attribute("y", "INTEGER", "false", "undefined") >>]

\* A model without attributes: its schema is {} and has no properties.
BareModel == [name |-> Str("Bare"), rawAttributes |-> <<>>]

\* The models argument: undefined, or the models of a Sequelize instance.
ModelsInputs ==
    {Undefined, Arr(<<UserModel>>), Arr(<<UserModel, PointModel>>), Arr(<<BareModel>>)}

\* The options argument: undefined, or an object that may lack a key.
OptionsInputs ==
    {Undefined,
     [basedir |-> Str("app"), files |-> <<Str("routes")>>],
     [basedir |-> Str("app"), openAPI3Definition |-> [info |-> [title |-> Str("Swagger")]]],
     [basedir |-> Str("app"), openAPI3Definition |-> [info |-> [title |-> Str("Swagger")]],
      files |-> <<Str("routes")>>]}

Tag(title, description, name, type) ==
    [title |-> title, description |-> description, name |-> name, type |-> type]

RouteTag(description) == Tag("route", StrVal(description), Undefined, Undefined)
GroupTag(description) == Tag("group", StrVal(description), Undefined, Undefined)
ParamTag(type, name, description) == Tag("param", StrVal(description), StrVal(name), type)

StringType == NameExpression(Str("string"))

\* The type expressions compiled directly.
Types ==
    << StringType,
       NameExpression(Str("number")),
       NameExpression(Str("integer")),
       NameExpression(Str("boolean")),
       NameExpression(Str("User")),
       NameExpression(<<"User", ".", "id">>),
       NameExpression(<<"User", ".", "model">>),
       NameExpression(<<"User", ".", "id", ".", "x">>),
       NameExpression(Str("Point")),
       NameExpression(<<"Point", ".", "model">>),
       NameExpression(<<"Point", ".", "x">>),
       NameExpression(<<"Bare", ".", "id">>),
       NameExpression(Str("Bare")),
       NameExpression(<<"User", ".">>),
       NameExpression(<<".", "id">>),
       NameExpression(Str("Date")),
       NameExpression(Str("File")),
       NameExpression(Str("Enum")),
       NameExpression(Str("Array")),
       NameExpression(Str("AllLiteral")),
       NameExpression(Str("NameExpression")),
       NameExpression(Str("enum")),
       TypeApplication(NameExpression(Str("Array")), <<StringType>>),
       TypeApplication(NameExpression(Str("Array")), <<NameExpression(Str("Point"))>>),
       TypeApplication(StringType, <<StringLiteralType(<<"date", "-", "time">>)>>),
       TypeApplication(NameExpression(Str("Date")), <<StringLiteralType(Str("date"))>>),
       OptionalType(StringType),
       OptionalType(NameExpression(<<"User", ".", "model">>)),
       UnionType(<<StringType, NullLiteral>>),
       UnionType(<<NameExpression(Str("User")), NameExpression(Str("integer"))>>),
       AllLiteral,
       NullLiteral,
       UnionType(<<NullLiteral, NameExpression(<<"User", ".", "id">>)>>),
       UnionType(<<StringType, NameExpression(Str("number")), NullLiteral>>),
       UnionType(<<NameExpression(Str("Unknown")), NullLiteral>>),
       UnionType(<<StringLiteralType(Str("a")), NullLiteral>>),
       UnionType(<<StringType>>),
       TypeApplication(NameExpression(Str("Array")), <<NameExpression(Str("Unknown"))>>),
       TypeApplication(NameExpression(Str("Array")),
                       <<UnionType(<<StringType, NullLiteral>>)>>),
       TypeApplication(NameExpression(Str("File")), <<StringLiteralType(Str("binary"))>>),
       TypeApplication(NameExpression(Str("File")),
                       <<StringLiteralType(Str("binary")), StringLiteralType(Str("byte"))>>),
       TypeApplication(NameExpression(Str("Date")),
                       <<StringLiteralType(Str("date")), StringLiteralType(<<"date", "-", "time">>)>>),
       TypeApplication(NameExpression(Str("File")), <<NameExpression(Str("Unknown"))>>) >>

\* The param tags handed to constructProperty directly.
Params ==
    << ParamTag(StringType, <<"query", ".", "name", ".", "required">>, <<"filter">>),
       ParamTag(StringType, <<"path", ".", "id">>, <<"the", " ", "id">>),
       ParamTag(StringType, <<"body", ".", "name">>, <<"name">>),
       ParamTag(StringType, <<"headers", ".", "token">>, <<"token">>),
       ParamTag(StringType, <<"email", ".", "query", ".", "required">>,
                <<"username", " ", "or", " ", "email">>),
       ParamTag(NameExpression(<<"Point", ".", "model">>), <<"point", ".", "body", ".", "required">>,
                <<"the", " ", "new", " ", "point">>),
       ParamTag(NameExpression(<<"User", ".", "model">>), <<"user", ".", "body", ".", "required">>,
                <<"the", " ", "user">>),
       ParamTag(NameExpression(<<"User", ".", "model">>), <<"body", ".", "user">>, <<"the", " ", "user">>),
       ParamTag(NameExpression(Str("User")), <<"body", ".", "user">>, <<"the", " ", "user">>),
       ParamTag(StringType, <<"name">>, <<"filter">>),
       ParamTag(StringType, <<"cookie", ".", "name">>, <<"filter">>),
       ParamTag(StringType, <<".", "name">>, <<"filter">>),
       ParamTag(StringType, <<"query">>, <<"filter">>),
       ParamTag(OptionalType(StringType), <<"query", ".", "name", ".", "required">>, <<"filter">>),
       ParamTag(StringType, <<"query", ".", "q">>,
                <<"filter", "\n", " ", "-", " ", "in", ":", " ", "cookie">>),
       ParamTag(StringType, <<"query", ".", "q">>,
                <<"filter", "\n", " ", "-", " ", "in", ":", " ", "query">>),
       ParamTag(StringType, <<"query", ".", "q">>,
                <<"filter", "\n", " ", "-", " ", "enum", ":", " ", "[", "a">>),
       Tag("param", Undefined, StrVal(<<"query", ".", "q">>), StringType),
       ParamTag(OptionalType(NameExpression(<<"User", ".", "model">>)), <<"body", ".", "user">>,
                <<"the", " ", "user">>),
       ParamTag(UnionType(<<StringType, NullLiteral>>), <<"query", ".", "q", ".", "required">>,
                <<"filter">>),
       ParamTag(TypeApplication(NameExpression(Str("Array")), <<StringType>>),
                <<"query", ".", "names">>, <<"names">>) >>

\* The descriptions handed to constructOptions(optionsReducer(d)) directly.
Descriptions ==
    << <<"filter">>,
       <<"in", ":", " ", "query">>,
       <<"in", ":", " ", "path">>,
       <<"in", ":", " ", "body">>,
       <<"in", ":", " ", "headers">>,
       <<"in", ":", " ", "cookie">>,
       <<"in", ":", " ", "header">>,
       <<"in", ":">>,
       <<"in", ":", " ", "query", " ", "string">>,
       <<"filter", "\n", " ", "-", " ", "in", ":", " ", "cookie">>,
       <<"filter", "\n", " ", "-", " ", "in", ":", " ", "path">>,
       <<"in", ":", " ", "cookie", "\n", "-", " ", "in", ":", " ", "query">>,
       <<"in", ":", " ", "query", "\n", "-", " ", "in", ":", " ", "cookie">>,
       <<"in", ":", " ", "cookie", "\n", "-", " ", "anyOf", ":", "\n", "-", "minimum", ":", " ", "5">>,
       <<"enum", ":", " ", "[", "a", "\n", "-", " ", "in", ":", " ", "cookie">>,
       <<"text", "\n", "in", ":", " ", "cookie">>,
       <<"minimum", ":", " ", "5", "\n", " ", "-", " ", "minimum", ":", " ", "1">>,
       <<"format", ":", " ", "date">>,
       <<"enum", ":", " ", "[", "'", "a", "'", ",", " ", "'", "b", "'", "]">>,
       <<"required", ":", " ", "true">>,
       <<"filter", "\n", " ", "-", " ", "foo", ":", " ", "bar">>,
       <<"minLength", ":", " ", "3", "\n", " ", "-", " ", "minimum", ":", " ", "5">>,
       <<"minimum", ":", " ", "1", "\n", " ", "-", " ", "minimum", ":", " ", "5",
         "\n", " ", "-", " ", "anyOf", ":",
         "\n", " ", "-", " ", "maximum", ":", " ", "10">>,
       <<"anyOf", ":", "\n", " ", "-", " ", "minimum", ":", " ", "1",
         "\n", " ", "-", " ", "anyOf", ":",
         "\n", " ", "-", " ", "maximum", ":", " ", "5">>,
       <<"text", "\n", " ", "-", " ", "maximum", ":", " ", "10",
         "\n", " ", "-", " ", "oneOf", ":",
         "\n", " ", "-", " ", "minimum", ":", " ", "1",
         "\n", " ", "-", " ", "minimum", ":", " ", "5",
         "\n", " ", "-", " ", "maxItems", ":", " ", "2">>,
       <<"anyOf", ":", "\n", " ", "-", " ", "minimum", ":", " ", "1",
         "\n", " ", "-", " ", "oneOf", ":",
         "\n", " ", "-", " ", "maximum", ":", " ", "5">> >>

Comment(description, tags) == [description |-> StrVal(description), tags |-> tags]

FooGroup == GroupTag(<<"foo", " ", "-", " ", "desc">>)

\* The annotation streams the documented files hold.
Comments ==
    << \* 1: the documented query parameter
       Comment(<<"List", " ", "users">>,
               << RouteTag(<<"GET", " ", "/", "users">>), FooGroup,
                  ParamTag(StringType, <<"query", ".", "name", ".", "required">>, <<"filter">>) >>),
       \* 2: another method of the same URI, the same group with another description
       Comment(<<"Add", " ", "a", " ", "user">>,
               << RouteTag(<<"POST", " ", "/", "users">>),
                  GroupTag(<<"foo", " ", "-", " ", "other">>),
                  ParamTag(NameExpression(Str("User")), <<"body", ".", "user">>, <<"the", " ", "user">>) >>),
       \* 3: an unknown model after the route tag
       Comment(<<"Things">>,
               << RouteTag(<<"GET", " ", "/", "things">>), FooGroup,
                  ParamTag(NameExpression(<<"Unknown", ".", "model">>),
                           <<"query", ".", "thing">>, <<"a", " ", "thing">>) >>),
       \* 4: the README example
       Comment(<<"This", " ", "function", " ", "comment", " ", "is", " ", "parsed", " ", "by", " ", "doctrine">>,
               << RouteTag(<<"POST", " ", "/", "api">>),
                  GroupTag(<<"foo", " ", "-", " ", "Operations", " ", "about", " ", "user">>),
                  ParamTag(NameExpression(<<"User", ".", "model">>),
                           <<"user", ".", "body", ".", "required">>, <<"the", " ", "user">>),
                  Tag("returns", StrVal(<<"200", " ", "-", " ", "User", " ", "object">>),
                      Undefined, NameExpression(<<"User", ".", "model">>)) >>),
       \* 5: two route tags in one stream
       Comment(<<"Points">>,
               << RouteTag(<<"GET", " ", "/", "points">>),
                  RouteTag(<<"PUT", " ", "/", "points">>),
                  GroupTag(<<"bar", " ", "-", " ", "points">>),
                  ParamTag(NameExpression(<<"Point", ".", "x">>), <<"path", ".", "x">>, <<"x">>) >>),
       \* 6: no group tag, the URI and method of stream 1
       Comment(<<"Users">>,
               << RouteTag(<<"GET", " ", "/", "users">>),
                  ParamTag(StringType, <<"path", ".", "id">>, <<"the", " ", "id">>) >>),
       \* 7: no route tag
       Comment(<<"Helper">>,
               << ParamTag(NameExpression(Str("Unknown")), <<"cookie", ".", "x">>, <<"x">>),
                  Tag("returns", StrVal(<<"200", " ", "-", " ", "ok">>), Undefined, Undefined) >>),
       \* 8: a property no model declares
       Comment(<<"Search">>,
               << RouteTag(<<"GET", " ", "/", "search">>),
                  ParamTag(NameExpression(<<"User", ".", "model">>), <<"query", ".", "q">>,
                           <<"filter">>) >>),
       \* 9: a malformed enum literal
       Comment(<<"Status">>,
               << RouteTag(<<"GET", " ", "/", "status">>), FooGroup,
                  ParamTag(NameExpression(Str("Enum")), <<"query", ".", "status">>,
                           <<"status", "\n", " ", "-", " ", "enum", ":", " ", "[", "a">>) >>),
       \* 10: a route without method
       Comment(<<"Root">>, << RouteTag(<<"/", "root">>), FooGroup >>),
       \* 11: tags ahead of the route tag and tags after it
       Comment(<<"Late">>,
               << ParamTag(NameExpression(Str("Unknown")), <<"cookie", ".", "x">>, <<"x">>),
                  Tag("summary", StrVal(<<"late">>), Undefined, Undefined),
                  FooGroup,
                  RouteTag(<<"GET", " ", "/", "late">>),
                  ParamTag(StringType, <<"query", ".", "y">>, <<"y">>),
                  Tag("operationId", StrVal(<<"retrieveFooInfo">>), Undefined, Undefined),
                  Tag("returns", StrVal(<<"200", " ", "-", " ", "ok">>), Undefined, StringType) >>) >>

-----------------------------------------------------------------------------
(* generateSpecAndMount *)

\* The checks at the head of generateSpecAndMount without the one of
\* options.files.
MissingConfigurationButFiles(m, o) ==
    IF IsUndefined(o) THEN "options"
    ELSE IF "openAPI3Definition" \notin DOMAIN o THEN "openAPI3Definition"
    ELSE IF IsUndefined(m) THEN "models"
    ELSE "none"

\* The checks at the head of generateSpecAndMount: what is required and
\* missing, or "none".
MissingConfiguration(m, o) ==
    IF IsUndefined(o) THEN "options"
    ELSE IF "openAPI3Definition" \notin DOMAIN o THEN "openAPI3Definition"
    ELSE IF "files" \notin DOMAIN o THEN "files"
    ELSE IF IsUndefined(m) THEN "models"
    ELSE "none"

\* components.schemas = { ...components.schemas, ...helpers.buildFromSequelize(models) }
PopulateRegistry(registry, m) == buildFromSequelize(m.list) @@ registry

\* A loop whose catch block drops the paths assembled so far.
MergeStreamDroppingPaths(paths, formatted) ==
    IF IsThrow(formatted) THEN EmptyObject
    ELSE deepmerge(paths, formatted.val.paths)

\* The body of the try block and its catch: the paths of the document after
\* one annotation stream, formatted being what fileFormat returned or threw.
MergeStream(paths, formatted) ==
    IF IsThrow(formatted) THEN paths
    ELSE deepmerge(paths, formatted.val.paths)

\* What console.error has received after one annotation stream.
LogStream(log, formatted) ==
    IF IsThrow(formatted) THEN Append(log, formatted.throw) ELSE log

Init ==
    /\ pc = "idle"
    /\ schemas = EmptyObject
    /\ openapiObject = buildOpenAPI3Base(EmptyObject)
    /\ models = Undefined
    /\ runOptions = Undefined
    /\ apiFiles = 0
    /\ filesRead = 0
    /\ processed = <<>>
    /\ errors = <<>>
    /\ thrown = "none"
    /\ runs = 0
    /\ call = [fn |-> "none"]

\* A call of generateSpecAndMount(m, o) up to its loop; n is the number of
\* files the globs of o.files match, and no glob is expanded by a call that
\* throws.
GenerateSpecAndMount(m, o, n) ==
    /\ pc = "idle"
    /\ runs < MaxRuns
    /\ MissingConfiguration(m, o) # "none" => n = 0
    /\ runs' = runs + 1
    /\ models' = m
    /\ runOptions' = o
    /\ thrown' = MissingConfiguration(m, o)
    /\ IF MissingConfiguration(m, o) # "none"
       THEN UNCHANGED <<pc, schemas, openapiObject, apiFiles, filesRead, processed, errors>>
       ELSE /\ pc' = "running"
            /\ schemas' = PopulateRegistry(schemas, m)
            /\ openapiObject' =
                  [buildOpenAPI3Base(o.openAPI3Definition)
                     EXCEPT !.components = [schemas |-> schemas']]
            /\ apiFiles' = n
            /\ filesRead' = 0
            /\ processed' = <<>>
            /\ errors' = <<>>
    /\ UNCHANGED call

\* parseApiFile(apiFiles[i]) for the next file.
ParseApiFile ==
    /\ pc = "running"
    /\ filesRead < apiFiles
    /\ filesRead' = filesRead + 1
    /\ UNCHANGED <<pc, schemas, openapiObject, models, runOptions, apiFiles, processed,
                   errors, thrown, runs, call>>

\* One turn of the inner loop: the next annotation stream of the file read
\* last is Comments[c].
ProcessComment(c) ==
    /\ pc = "running"
    /\ filesRead >= 1
    /\ Len(processed) < MaxStreams
    /\ processed' = Append(processed, c)
    /\ openapiObject' =
          [openapiObject EXCEPT !.paths = MergeStream(openapiObject.paths, fileFormat(Comments[c]))]
    /\ errors' = LogStream(errors, fileFormat(Comments[c]))
    /\ UNCHANGED <<pc, schemas, models, runOptions, apiFiles, filesRead, thrown, runs, call>>

\* return openapiObject, once every file is read: the locals of the loop
\* are gone, the document and the console output remain.
Return ==
    /\ pc = "running"
    /\ filesRead = apiFiles
    /\ pc' = "idle"
    /\ apiFiles' = 0
    /\ filesRead' = 0
    /\ processed' = <<>>
    /\ UNCHANGED <<schemas, openapiObject, models, runOptions, errors, thrown, runs, call>>

Next ==
    \/ \E m \in ModelsInputs, o \in OptionsInputs, n \in 0..MaxFiles :
          GenerateSpecAndMount(m, o, n)
    \/ ParseApiFile
    \/ \E c \in 1..Len(Comments) : ProcessComment(c)
    \/ Return

Spec == Init /\ [][Next]_vars

-----------------------------------------------------------------------------
(* Direct calls of the compiler's functions *)

\* The model lists earlier calls of generateSpecAndMount have supplied.
ModelLists ==
    {<<>>, <<UserModel>>, <<BareModel>>, <<UserModel, PointModel>>,
     <<UserModel, BareModel>>, <<UserModel, PointModel, BareModel>>}

\* The registries components.schemas can hold when a function is called.
Registries == {buildFromSequelize(ms) : ms \in ModelLists}

InitCalls ==
    /\ pc = "idle"
    /\ schemas \in Registries
    /\ openapiObject = buildOpenAPI3Base(EmptyObject)
    /\ models = Undefined
    /\ runOptions = Undefined
    /\ apiFiles = 0
    /\ filesRead = 0
    /\ processed = <<>>
    /\ errors = <<>>
    /\ thrown = "none"
    /\ runs = 0
    /\ call = [fn |-> "none"]

\* Each behaviour makes one call: the functions keep nothing between calls
\* but the registry, which the initial state fixes.

\* The options object constructProperty builds from Descriptions[d].
OptionsOf(d) == parseOptions(StrVal(Descriptions[d]))

\* The descriptions whose options object is built without error.
OptionSources == {d \in 1..Len(Descriptions) : ~IsThrow(OptionsOf(d))}

\* constructPropertyType(Types[t], 'f', options), options being the object
\* built from Descriptions[d]
CallConstructPropertyType(t, d) ==
    /\ call.fn = "none"
    /\ call' = [fn |-> "constructPropertyType", input |-> t, options |-> d,
                result |-> constructPropertyType(Types[t], StrVal(Str("f")),
                                                 OptionsOf(d).val, Undefined)]
    /\ UNCHANGED <<pc, schemas, openapiObject, models, runOptions, apiFiles, filesRead,
                   processed, errors, thrown, runs>>

\* constructProperty(Params[p])
CallConstructProperty(p) ==
    /\ call.fn = "none"
    /\ call' = [fn |-> "constructProperty", input |-> p,
                result |-> constructProperty(Params[p])]
    /\ UNCHANGED <<pc, schemas, openapiObject, models, runOptions, apiFiles, filesRead,
                   processed, errors, thrown, runs>>

\* constructOptions(optionsReducer(Descriptions[d]))
CallConstructOptions(d) ==
    /\ call.fn = "none"
    /\ call' = [fn |-> "constructOptions", input |-> d,
                result |-> parseOptions(StrVal(Descriptions[d]))]
    /\ UNCHANGED <<pc, schemas, openapiObject, models, runOptions, apiFiles, filesRead,
                   processed, errors, thrown, runs>>

\* optionsReducer(Descriptions[d]) up to its reduce: the description is
\* split into segments and the accumulator is { level: undefined }.
CallOptionsReducer(d) ==
    /\ call.fn = "none"
    /\ call' = [fn |-> "optionsReducer", input |-> d,
                optionsArray |-> SplitBullets(Descriptions[d]), done |-> 0,
                result |-> Ret([store |-> EmptyStore, level |-> NoLevel])]
    /\ UNCHANGED <<pc, schemas, openapiObject, models, runOptions, apiFiles, filesRead,
                   processed, errors, thrown, runs>>

\* One turn of the reduce of optionsReducer: the next segment is folded into
\* the accumulator, or its coercion throws.
ReduceOption ==
    /\ call.fn = "optionsReducer"
    /\ ~IsThrow(call.result)
    /\ call.done < Len(call.optionsArray)
    /\ call' = [call EXCEPT !.done = call.done + 1,
                            !.result = optionStep(call.result.val,
                                                  call.optionsArray[call.done + 1])]
    /\ UNCHANGED <<pc, schemas, openapiObject, models, runOptions, apiFiles, filesRead,
                   processed, errors, thrown, runs>>

\* An activation of constructPropertyType or of one constructor of
\* typeConstructors: the function, its type argument and its applications
\* argument (none when it is undefined).
Frame(fn, type, applications) == [fn |-> fn, type |-> type, applications |-> applications]

\* The calls of constructPropertyType a constructor makes in a map or reduce
\* over a list: one per element, the i-th once those before it returned.
CallsOver(list) ==
    {Frame("constructPropertyType", list[i], <<>>) :
        i \in {i \in 1..Len(list) :
                 \A j \in 1..(i - 1) :
                    ~IsThrow(constructPropertyType(list[j], StrVal(Str("f")),
                                                   EmptyObject, Undefined))}}

\* constructObject: for each application in turn, the calls over its own
\* applications.
RECURSIVE CallsOfObject(_)
CallsOfObject(list) ==
    IF list = <<>> THEN {}
    ELSE IF "expression" \notin DOMAIN Head(list) \/ "applications" \notin DOMAIN Head(list)
    THEN {}
    ELSE CallsOver(Head(list).applications)
         \cup (IF \A j \in 1..Len(Head(list).applications) :
                     ~IsThrow(constructPropertyType(Head(list).applications[j],
                                                    StrVal(Str("f")), EmptyObject, Undefined))
               THEN CallsOfObject(Tail(list)) ELSE {})

Child(type, key) == IF key \in DOMAIN type THEN type[key] ELSE Undefined

\* The calls constructNameExpression makes.
CalledByNameExpression(frame) ==
    IF frame.type.name \in simpleNameExpressions
    THEN IF frame.type.name = Str("string") THEN CallsOver(frame.applications) ELSE {}
    ELSE IF Len(frame.type.name) = 1 /\ frame.type.name[1] \in typeConstructors
    THEN {Frame(frame.type.name[1], frame.type, frame.applications)}
    ELSE {}

\* The calls the function of a frame makes on its arguments.
CalledBy(frame) ==
    CASE frame.fn = "constructPropertyType" ->
            IF "type" \in DOMAIN frame.type /\ frame.type.type \in typeConstructors
            THEN {Frame(frame.type.type, frame.type, frame.applications)}
            ELSE {}
      [] frame.fn = "NameExpression" -> CalledByNameExpression(frame)
      [] frame.fn \in {"Array", "Enum", "Date", "File"} -> CallsOver(frame.applications)
      [] frame.fn = "Object" -> CallsOfObject(frame.applications)
      [] frame.fn = "OptionalType" ->
            {Frame("constructPropertyType", Child(frame.type, "expression"), <<>>)}
      [] frame.fn = "TypeApplication" ->
            {Frame("constructPropertyType", Child(frame.type, "expression"),
                   IF "applications" \in DOMAIN frame.type
                   THEN frame.type.applications ELSE <<>>)}
      [] frame.fn = "UnionType" ->
            IF "elements" \notin DOMAIN frame.type THEN {}
            ELSE IF Len(NonNullElements(frame.type.elements)) > 1
            THEN CallsOver(NonNullElements(frame.type.elements))
            ELSE IF Len(NonNullElements(frame.type.elements)) = 1
            THEN {Frame("constructPropertyType", NonNullElements(frame.type.elements)[1], <<>>)}
            ELSE {Frame("constructPropertyType", Undefined, <<>>)}
      [] OTHER -> {}

\* constructPropertyType(Types[t], 'f', {}) is entered.
EnterConstructPropertyType(t) ==
    /\ call.fn = "none"
    /\ call' = [fn |-> "typeConstructors", input |-> t, depth |-> 0,
                frame |-> Frame("constructPropertyType", Types[t], <<>>)]
    /\ UNCHANGED <<pc, schemas, openapiObject, models, runOptions, apiFiles, filesRead,
                   processed, errors, thrown, runs>>

\* The active function makes one of its calls: the call stack grows by the
\* frame of the callee.
CallNext ==
    /\ call.fn = "typeConstructors"
    /\ call.depth < MaxDepth
    /\ \E callee \in CalledBy(call.frame) :
          call' = [call EXCEPT !.frame = callee, !.depth = call.depth + 1]
    /\ UNCHANGED <<pc, schemas, openapiObject, models, runOptions, apiFiles, filesRead,
                   processed, errors, thrown, runs>>

NextCalls ==
    \/ \E t \in 1..Len(Types) : EnterConstructPropertyType(t)
    \/ CallNext
    \/ \E t \in 1..Len(Types), d \in OptionSources : CallConstructPropertyType(t, d)
    \/ \E p \in 1..Len(Params) : CallConstructProperty(p)
    \/ \E d \in 1..Len(Descriptions) : CallConstructOptions(d)
    \/ \E d \in 1..Len(Descriptions) : CallOptionsReducer(d)
    \/ ReduceOption

SpecCalls == InitCalls /\ [][NextCalls]_vars

-----------------------------------------------------------------------------
(* Properties of generateSpecAndMount *)

\* The streams of a run whose fileFormat call returned.
Successful(streams) ==
    SelectSeq(streams, LAMBDA c : ~IsThrow(fileFormat(Comments[c])))

\* The successive merge of the fragments of the streams into paths.
RECURSIVE MergeFragments(_, _)
MergeFragments(paths, streams) ==
    IF streams = <<>> THEN paths
    ELSE MergeFragments(deepmerge(paths, fileFormat(Comments[Head(streams)]).val.paths),
                        Tail(streams))

\* C1: during a run of generateSpecAndMount the paths of the document are
\* the successive merge, into the paths of the base document, of the
\* fragments of exactly the processed streams whose fileFormat call did not
\* raise, and each stream that raised left one error on the console and
\* nothing else.
C1_PathsAreMergeOfSuccessfulStreams ==
    pc = "running" =>
        /\ openapiObject.paths =
              MergeFragments(buildOpenAPI3Base(runOptions.openAPI3Definition).paths,
                             Successful(processed))
        /\ Len(errors) = Len(processed) - Len(Successful(processed))

\* C1 witness: a stream that raised after its route tag (an unknown model)
\* was followed by a stream that did not raise; the document holds the
\* operation of the second and nothing of the first.
C1_FailedThenSuccessfulStream ==
    /\ pc = "running"
    /\ Len(processed) = 2
    /\ processed[1] = 3
    /\ errors = <<"UnknownModel">>
    /\ ~IsThrow(fileFormat(Comments[processed[2]]))
    /\ openapiObject.paths # EmptyObject
    /\ <<"/", "things">> \notin DOMAIN openapiObject.paths

\* C2: after the stream `@route GET /users`, `@group foo - desc`,
\* `@param {string} query.name.required - filter` is processed, the operation
\* paths["/users"]["get"] has the tags ["foo"] and, among its parameters, a
\* query parameter named name with required true and the schema {type: string}.
C2_RouteThenParamAttachesParameter ==
    (pc = "running" /\ processed = <<1>>) =>
        /\ <<"/", "users">> \in DOMAIN openapiObject.paths
        /\ <<"get">> \in DOMAIN openapiObject.paths[<<"/", "users">>]
        /\ openapiObject.paths[<<"/", "users">>][<<"get">>].tags = <<Str("foo")>>
        /\ \E i \in 1..Len(openapiObject.paths[<<"/", "users">>][<<"get">>].parameters) :
              /\ openapiObject.paths[<<"/", "users">>][<<"get">>].parameters[i].name = Str("name")
              /\ openapiObject.paths[<<"/", "users">>][<<"get">>].parameters[i].in = Str("query")
              /\ openapiObject.paths[<<"/", "users">>][<<"get">>].parameters[i].required
              /\ openapiObject.paths[<<"/", "users">>][<<"get">>].parameters[i].schema
                    = [type |-> Str("string")]

\* C3: when the same stream is processed twice in a run, the second merge of
\* its fragment changes nothing: the paths equal those after the first merge.
C3_SecondMergeOfSameFragmentChangesNothing ==
    (/\ pc = "running"
     /\ Len(processed) = 2
     /\ processed[1] = processed[2]
     /\ ~IsThrow(fileFormat(Comments[processed[1]]))) =>
        openapiObject.paths =
            deepmerge(buildOpenAPI3Base(runOptions.openAPI3Definition).paths,
                      fileFormat(Comments[processed[1]]).val.paths)

\* C4: the tags list fileFormat builds for a processed stream holds at most
\* one entry per tag name.
C4_OneCatalogEntryPerTagName ==
    pc = "running" =>
        \A k \in 1..Len(processed) :
            ~IsThrow(fileFormat(Comments[processed[k]])) =>
                \A i, j \in 1..Len(fileFormat(Comments[processed[k]]).val.tags) :
                    fileFormat(Comments[processed[k]]).val.tags[i].name
                        = fileFormat(Comments[processed[k]]).val.tags[j].name
                    => i = j

\* C5: during a run the Schema Registry holds the schemas of the models
\* supplied to that run and no other.
C5_RegistryHoldsOnlyThisRunsModels ==
    pc = "running" => schemas = buildFromSequelize(models.list)

-----------------------------------------------------------------------------
(* Properties of the compiler's functions *)

\* What compiling a reference with the dot-segments of a name must give.
ResolvedAgainstRegistry(segments, result) ==
    IF segments[1] \notin DOMAIN schemas
    THEN result = Throw("UnknownModel")
    ELSE IF Len(segments) < 2 \/ segments[2] = <<>>
    THEN result = Ret("$ref" :> (<<RefPrefix>> \o segments[1]))
    ELSE IF "properties" \notin DOMAIN schemas[segments[1]]
    THEN result = Throw("TypeError")
    ELSE IF segments[2] \notin DOMAIN schemas[segments[1]].properties
    THEN result = Throw("UnknownModelProperty")
    ELSE result = Ret("$ref" :> (<<RefPrefix>> \o segments[1]
                                 \o <<RefProperties>> \o segments[2]))

C8_ModelSuffixCompilesToModelReference ==
    (/\ call.fn = "constructPropertyType"
     /\ Types[call.input] \in {NameExpression(<<"User", ".", "model">>),
                               NameExpression(<<"Point", ".", "model">>)}
     /\ Split(Types[call.input].name, ".")[1] \in DOMAIN schemas)
    => call.result = Ret("$ref" :> (<<RefPrefix>> \o Split(Types[call.input].name, ".")[1]))

\* C9: constructProperty accepts a param named <field>.<location>.required
\* as the README writes it: it raises no error and yields the location and
\* the field of the name.
C9_ReadmeParamNamesAreAccepted ==
    (/\ call.fn = "constructProperty"
     /\ Params[call.input].name \in
           {StrVal(<<"email", ".", "query", ".", "required">>),
            StrVal(<<"point", ".", "body", ".", "required">>),
            StrVal(<<"user", ".", "body", ".", "required">>)})
    => /\ ~IsThrow(call.result)
       /\ call.result.val.in = Split(Params[call.input].name.str, ".")[2]
       /\ DOMAIN call.result.val.property = {Split(Params[call.input].name.str, ".")[1]}

\* The [key, value] pairs of the `in:` segments of a description, in order.
InSegments(description) ==
    SelectSeq([i \in 1..Len(SplitBullets(description)) |->
                  KeyValueOf(SplitKeys(SplitBullets(description)[i]))],
              LAMBDA pair : pair.key = StrVal(Str("in")))

\* The value of the segment is one of query, path, body, headers.
IsValidIn(pair) == IsStrVal(pair.value) /\ pair.value.str \in ValidLocations

\* No `in:` segment, or a valid value in the last one.
LastInIsValid(description) ==
    \/ InSegments(description) = <<>>
    \/ IsValidIn(InSegments(description)[Len(InSegments(description))])

\* C10 (amended): constructOptions(optionsReducer(d)) raises when the last
\* `in:` segment of d has a value outside {query, path, body, headers}, an
\* earlier `in:` segment being overwritten by a later one; constructProperty
\* raises when the first dot-segment of the param name is outside the set (a
\* name without dot included) or the last `in:` segment of its description
\* is; and no location error is raised when the first dot-segment of the name
\* is in the set and the description has no `in:` segment or a valid last one.
C10_InvalidLocationRaises ==
    /\ call.fn = "constructOptions" =>
          /\ ~LastInIsValid(Descriptions[call.input]) => IsThrow(call.result)
          /\ LastInIsValid(Descriptions[call.input])
                => call.result # Throw("InvalidLocation")
    /\ (call.fn = "constructProperty" /\ IsStrVal(Params[call.input].description)) =>
          /\ Split(Params[call.input].name.str, ".")[1] \notin ValidLocations
                => IsThrow(call.result)
          /\ ~LastInIsValid(Params[call.input].description.str) => IsThrow(call.result)
          /\ (/\ Split(Params[call.input].name.str, ".")[1] \in ValidLocations
              /\ LastInIsValid(Params[call.input].description.str))
                => call.result # Throw("InvalidLocation")

\* C10 witness: a description whose first `in:` segment is valid and whose
\* last one is not was parsed, and the call raised the location error.
C10_LastInvalidInRaised ==
    /\ call.fn = "constructOptions"
    /\ Len(InSegments(Descriptions[call.input])) = 2
    /\ IsValidIn(InSegments(Descriptions[call.input])[1])
    /\ ~IsValidIn(InSegments(Descriptions[call.input])[2])
    /\ call.result = Throw("InvalidLocation")

\* C10 as stated: constructOptions(optionsReducer(d)) raises when d contains
\* an `in:` segment with a value outside {query, path, body, headers}.
C10_AnyInvalidInRaises ==
    (/\ call.fn = "constructOptions"
     /\ \E i \in 1..Len(InSegments(Descriptions[call.input])) :
           ~IsValidIn(InSegments(Descriptions[call.input])[i]))
    => IsThrow(call.result)

\* C11: the description `minimum: 5` followed by `- minimum: 1`, with no
\* composition open, parses to anyOf: [{minimum: 5}, {minimum: 1}], the
\* values in the order of their declaration; a keyword declared once is a
\* direct field holding its value.
C11_RepeatedKeywordKeepsDeclarationOrder ==
    /\ (/\ call.fn = "constructOptions"
        /\ Descriptions[call.input]
              = <<"minimum", ":", " ", "5", "\n", " ", "-", " ", "minimum", ":", " ", "1">>)
       => call.result = Ret([anyOf |-> Arr(<<[minimum |-> NumVal(5)],
                                             [minimum |-> NumVal(1)]>>)])
    /\ (/\ call.fn = "constructOptions"
        /\ Descriptions[call.input] = <<"format", ":", " ", "date">>)
       => call.result = Ret([format |-> StrVal(Str("date"))])

\* C12: a primitive name-reference (string, number, integer, boolean)
\* without type arguments compiles to exactly {type: <name>}, whatever the
\* options object holds.
C12_PrimitiveNameCompilesToTypeOnly ==
    (/\ call.fn = "constructPropertyType"
     /\ Types[call.input].type = "NameExpression"
     /\ Types[call.input].name \in simpleNameExpressions)
    => call.result = Ret([type |-> Types[call.input].name])

\* C12 witness: {integer} was compiled with the options {format: date} and
\* gave {type: integer}.
C12_IntegerCompiledWithFormatOption ==
    /\ call.fn = "constructPropertyType"
    /\ Types[call.input] = NameExpression(Str("integer"))
    /\ OptionsOf(call.options) = Ret([format |-> StrVal(Str("date"))])
    /\ call.result = Ret([type |-> Str("integer")])

\* What constructPropertyType returns for a node with the field of the
\* direct calls and the options built from Descriptions[d].
CompiledWith(type, d) ==
    constructPropertyType(type, StrVal(Str("f")), OptionsOf(d).val, Undefined)

\* The result a union must give: nonNull are its branches other than the
\* null literal, in order, and nullable tells whether it has a null branch.
UnionCompiled(nonNull, nullable, d, result) ==
    IF Len(nonNull) >= 2
    THEN IF \E i \in 1..Len(nonNull) : IsThrow(CompiledWith(nonNull[i], d))
         THEN IsThrow(result)
         ELSE result = Ret([anyOf |-> [i \in 1..Len(nonNull) |->
                                          CompiledWith(nonNull[i], d).val],
                            nullable |-> nullable])
    ELSE IF Len(nonNull) = 1 /\ nullable
    THEN IF IsThrow(CompiledWith(nonNull[1], d))
         THEN result = CompiledWith(nonNull[1], d)
         ELSE result = Ret([nullable |-> TRUE] @@ Spread(CompiledWith(nonNull[1], d).val))
    ELSE TRUE

\* C13: a union with a null-literal branch and exactly one other branch X
\* compiles to the schema of X with nullable: true merged in; a union with
\* two or more non-null branches compiles to {anyOf: [the schema of each
\* non-null branch in order], nullable}, nullable being true exactly when the
\* union has a null-literal branch.  An error raised by a branch is raised by
\* the union.
C13_UnionCompilesBranches ==
    (/\ call.fn = "constructPropertyType"
     /\ Types[call.input].type = "UnionType")
    => UnionCompiled(SelectSeq(Types[call.input].elements,
                               LAMBDA element : element # NullLiteral),
                     \E i \in 1..Len(Types[call.input].elements) :
                        Types[call.input].elements[i] = NullLiteral,
                     call.options, call.result)

\* C13 witness: the union of null and User.id was compiled with User
\* registered and gave the reference with nullable: true.
C13_NullableReferenceCompiled ==
    /\ call.fn = "constructPropertyType"
    /\ Types[call.input] = UnionType(<<NullLiteral, NameExpression(<<"User", ".", "id">>)>>)
    /\ call.result = Ret([nullable |-> TRUE]
                         @@ ("$ref" :> <<RefPrefix, "User", RefProperties, "id">>))

\* C14: an array node with a single type argument X compiles to exactly
\* {type: array, items: S}, S being what constructPropertyType returns for X
\* with the same field and options; an error raised for X is raised for the
\* array.
C14_ArrayCompilesItems ==
    (/\ call.fn = "constructPropertyType"
     /\ Types[call.input].type = "TypeApplication"
     /\ Types[call.input].expression = NameExpression(Str("Array"))
     /\ Len(Types[call.input].applications) = 1)
    => IF IsThrow(CompiledWith(Types[call.input].applications[1], call.options))
       THEN call.result = CompiledWith(Types[call.input].applications[1], call.options)
       ELSE call.result =
               Ret([type |-> Str("array"),
                    items |-> CompiledWith(Types[call.input].applications[1],
                                           call.options).val])

\* C14 witness: Array.<Point> was compiled with Point registered and gave
\* the array of references to Point.
C14_ArrayOfReferencesCompiled ==
    /\ call.fn = "constructPropertyType"
    /\ Types[call.input] = TypeApplication(NameExpression(Str("Array")),
                                           <<NameExpression(Str("Point"))>>)
    /\ call.result = Ret([type |-> Str("array"),
                          items |-> ("$ref" :> <<RefPrefix, "Point">>)])

\* The route a description `<METHOD> <URI>` names: a description that holds
\* a URI alone has no METHOD, one that holds a METHOD alone has no URI.
ClaimedRoute(tokens) ==
    IF tokens[1] = <<>> \/ tokens[1][1] = "/"
    THEN [method |-> Str("get"),
          uri |-> IF tokens[1] # <<>> THEN tokens[1]
                  ELSE IF Len(tokens) >= 2 THEN tokens[2] ELSE <<>>]
    ELSE [method |-> ToLowerCase(tokens[1]),
          uri |-> IF Len(tokens) >= 2 THEN tokens[2] ELSE <<>>]

\* The name and the description of the group tag `<tag-name> - <tag-description>`
\* of a stream, or default and the empty string.
ClaimedGroup(groups) ==
    IF groups = <<>> THEN [name |-> Str("default"), description |-> <<>>]
    ELSE [name |-> Trim(Split(groups[1].description.str, "-")[1]),
          description |-> Trim(Split(groups[1].description.str, "-")[2])]

\* The fragment holds, for the route, the seeded operation and the tag entry.
RouteSeeded(fragment, route, group, description) ==
    /\ route.uri \in DOMAIN fragment.paths
    /\ route.method \in DOMAIN fragment.paths[route.uri]
    /\ fragment.paths[route.uri][route.method] =
          [tags |-> <<group.name>>,
           parameters |-> <<>>,
           requestBody |-> [description |-> description, content |-> EmptyObject]]
    /\ \E i \in 1..Len(fragment.tags) : fragment.tags[i] = group

\* C15: for every route tag `<METHOD> <URI>` of a processed stream, the
\* fragment fileFormat returns has paths[URI][lowercase(METHOD)] equal to
\* exactly {tags: [group-name], parameters: [], requestBody: {description,
\* content: {}}}, the method being get when the description holds none and
\* the URI the empty string when it holds none, group-name being the trimmed
\* name of the stream's group tag or default; and the tags of the fragment
\* hold {name: tag-name, description: tag-description}.
C15_RouteTagSeedsOperation ==
    pc = "running" =>
        \A k \in 1..Len(processed) :
            ~IsThrow(fileFormat(Comments[processed[k]])) =>
                \A j \in 1..Len(Comments[processed[k]].tags) :
                    Comments[processed[k]].tags[j].title = "route" =>
                        RouteSeeded(fileFormat(Comments[processed[k]]).val,
                                    ClaimedRoute(Split(Comments[processed[k]].tags[j].description.str, " ")),
                                    ClaimedGroup(SelectSeq(Comments[processed[k]].tags,
                                                           LAMBDA tag : tag.title = "group")),
                                    Comments[processed[k]].description.str)

\* The index of the first route tag of a tag list, or one past its end.
RECURSIVE FirstRoute(_, _)
FirstRoute(tags, j) ==
    IF j > Len(tags) \/ tags[j].title = "route" THEN j ELSE FirstRoute(tags, j + 1)

\* A stream without the tags ahead of its first route tag; the group tags
\* stay, the route tag reads them wherever they stand.
WithoutLeadingTags(comments) ==
    [comments EXCEPT !.tags =
        SelectSeq(SubSeq(comments.tags, 1, FirstRoute(comments.tags, 1) - 1),
                  LAMBDA tag : tag.title = "group")
        \o SubSeq(comments.tags, FirstRoute(comments.tags, 1), Len(comments.tags))]

\* formatted is what fileFormat gave for the stream: it is what fileFormat
\* gives for the stream without the tags ahead of its first route tag, and
\* empty paths and tags when the stream has no route tag.
StreamIgnoresLeadingTags(comments, formatted) ==
    /\ FirstRoute(comments.tags, 1) > 1
          => formatted = fileFormat(WithoutLeadingTags(comments))
    /\ FirstRoute(comments.tags, 1) > Len(comments.tags)
          => formatted = Ret([paths |-> EmptyObject, tags |-> <<>>])

\* C16: the tags of a processed stream that stand ahead of its first route
\* tag are ignored: fileFormat returns, or raises, what it does for the stream
\* without them, and for a stream with no route tag it returns empty paths
\* and an empty tag list.
C16_TagsAheadOfRouteAreIgnored ==
    pc = "running" =>
        \A k \in 1..Len(processed) :
            StreamIgnoresLeadingTags(Comments[processed[k]],
                                     fileFormat(Comments[processed[k]]))

\* C16 witness: a stream whose first tag is a param that raises once a route
\* is open, followed by a route tag, was processed without error and its
\* route is in the document.
C16_RaisingParamAheadOfRouteIgnored ==
    /\ pc = "running"
    /\ processed = <<11>>
    /\ Comments[11].tags[1].title = "param"
    /\ IsThrow(constructProperty(Comments[11].tags[1]))
    /\ errors = <<>>
    /\ <<"/", "late">> \in DOMAIN openapiObject.paths
    /\ <<"get">> \in DOMAIN openapiObject.paths[<<"/", "late">>]

\* The index of the last route tag at or before position j, or 0.
RECURSIVE RouteBefore(_, _)
RouteBefore(tags, j) ==
    IF j = 0 \/ tags[j].title = "route" THEN j ELSE RouteBefore(tags, j - 1)

\* The operation of the fragment that the route tag at position r opened.
OperationOf(fragment, tags, r) ==
    fragment.paths[parseRoute(tags[r].description.str).uri]
                  [parseRoute(tags[r].description.str).method]

\* What a tag met while a route is open must have left in the operation.
TagSetsOperationField(operation, tag) ==
    /\ tag.title \in {"returns", "return"} =>
          /\ "responses" \in DOMAIN operation
          /\ Trim(Split(tag.description.str, "-")[1]) \in DOMAIN operation.responses
    /\ tag.title \in {"operationId", "summary", "produces", "consumes", "security",
                      "deprecated"} =>
          tag.title \in DOMAIN operation

\* C17: after fileFormat has processed a stream, the operation a route tag
\* opened has one response entry per returns/return tag that follows it,
\* keyed by the status key of `<key> - <description>`, and has the field of
\* each operationId, summary, produces, consumes, security and deprecated tag
\* that follows it.
C17_InRouteTagsSetOperationFields ==
    pc = "running" =>
        \A k \in 1..Len(processed) :
            ~IsThrow(fileFormat(Comments[processed[k]])) =>
                \A j \in 1..Len(Comments[processed[k]].tags) :
                    RouteBefore(Comments[processed[k]].tags, j) > 0 =>
                        TagSetsOperationField(
                            OperationOf(fileFormat(Comments[processed[k]]).val,
                                        Comments[processed[k]].tags,
                                        RouteBefore(Comments[processed[k]].tags, j)),
                            Comments[processed[k]].tags[j])

\* What fileFormat returned or raised for each stream of a list.
RECURSIVE FragmentsOf(_)
FragmentsOf(streams) ==
    IF streams = <<>> THEN <<>>
    ELSE <<fileFormat(Comments[Head(streams)])>> \o FragmentsOf(Tail(streams))

\* The fragment of a stream documents the method of the URI.
Documents(fragment, uri, method) ==
    /\ ~IsThrow(fragment)
    /\ uri \in DOMAIN fragment.val.paths
    /\ method \in DOMAIN fragment.val.paths[uri]

\* Every operation that exactly one of the fragments documents is in paths
\* as that fragment holds it.
OperationsKept(paths, fragments) ==
    \A k \in 1..Len(fragments) :
        ~IsThrow(fragments[k]) =>
            \A uri \in DOMAIN fragments[k].val.paths :
                \A method \in DOMAIN fragments[k].val.paths[uri] :
                    (\A l \in 1..Len(fragments) :
                        l # k => ~Documents(fragments[l], uri, method))
                    => /\ uri \in DOMAIN paths
                       /\ method \in DOMAIN paths[uri]
                       /\ paths[uri][method] = fragments[k].val.paths[uri][method]

C19_RequiredUnlessOptionalRoot ==
    /\ (call.fn = "constructProperty" /\ ~IsThrow(call.result))
       => (call.result.val.required <=> Params[call.input].type.type # "OptionalType")
    /\ (call.fn = "constructPropertyType" /\ Types[call.input].type = "OptionalType")
       => call.result = CompiledWith(Types[call.input].expression, call.options)

\* C19 witness: the param {string=} query.name.required gave required false
\* and the schema of string.
C19_OptionalParamWithRequiredSuffix ==
    /\ call.fn = "constructProperty"
    /\ Params[call.input].type = OptionalType(StringType)
    /\ Params[call.input].name = StrVal(<<"query", ".", "name", ".", "required">>)
    /\ call.result = Ret([property |-> (Str("name") :> [type |-> Str("string")]),
                          required |-> FALSE,
                          in |-> Str("query")])

\* C20: an enum node without type arguments, compiled with options that
\* carry the list of an `enum:` keyword, yields {type: string, enum: L}, L
\* being that list.
C20_EnumTakesListOfOptions ==
    (/\ call.fn = "constructPropertyType"
     /\ Types[call.input] = NameExpression(Str("Enum"))
     /\ "enum" \in DOMAIN OptionsOf(call.options).val)
    => call.result = Ret([type |-> Str("string"),
                          enum |-> OptionsOf(call.options).val.enum])

\* The type arguments of a date or file node: those of the application, none
\* for the bare name.
ArgumentsOf(type) ==
    IF type.type = "TypeApplication" THEN type.applications ELSE <<>>

\* The name of a bare name-reference or of the name an application applies.
AppliedName(type) ==
    IF type.type = "TypeApplication" /\ type.expression.type = "NameExpression"
    THEN type.expression.name
    ELSE IF type.type = "NameExpression" THEN type.name
    ELSE <<>>

\* The node with the name File put for Date.
AsDate(type) ==
    IF type.type = "TypeApplication"
    THEN [type EXCEPT !.expression = NameExpression(Str("Date"))]
    ELSE NameExpression(Str("Date"))

\* {type: string, format: <compiled argument>} for each argument, given the
\* options of Descriptions[d].
FormatsOf(arguments, d) ==
    [i \in 1..Len(arguments) |->
        [type |-> Str("string"), format |-> CompiledWith(arguments[i], d).val]]

\* The result a date or file node must give.
DateOrFileCompiled(name, arguments, options, d, result) ==
    IF arguments = <<>>
    THEN result = Ret(IF "format" \in DOMAIN options /\ Truthy(options.format)
                      THEN [type |-> Str("string"), format |-> options.format]
                      ELSE [type |-> Str("string")])
    ELSE IF \E i \in 1..Len(arguments) : IsThrow(CompiledWith(arguments[i], d))
    THEN IsThrow(result)
    ELSE IF name = Str("Date") THEN result = Ret([anyOf |-> FormatsOf(arguments, d)])
    ELSE IF Len(arguments) = 1 THEN result = Ret(FormatsOf(arguments, d)[1])
    ELSE result = Ret([oneOf |-> FormatsOf(arguments, d)])

\* C21, as amended: without arguments a date node and a file node both
\* compile to {type: string} plus format when options.format is set; with
\* arguments a date node compiles to {anyOf: [{type: string, format: <compiled
\* argument>}, ...]}, a file node with one argument to the single {type:
\* string, format: <compiled argument>} and a file node with two or more to
\* {oneOf: [...]}.
C21_DateAndFileShapes ==
    (/\ call.fn = "constructPropertyType"
     /\ AppliedName(Types[call.input]) \in {Str("Date"), Str("File")})
    => DateOrFileCompiled(AppliedName(Types[call.input]), ArgumentsOf(Types[call.input]),
                          OptionsOf(call.options).val, call.options, call.result)

\* C21 witness: File.<"binary", "byte"> was compiled to the oneOf of its two
\* formats.
C21_FileWithTwoFormatsCompiled ==
    /\ call.fn = "constructPropertyType"
    /\ AppliedName(Types[call.input]) = Str("File")
    /\ Len(ArgumentsOf(Types[call.input])) = 2
    /\ call.result = Ret([oneOf |-> <<[type |-> Str("string"), format |-> StrVal(Str("binary"))],
                                      [type |-> Str("string"), format |-> StrVal(Str("byte"))]>>])

\* C21: a file node compiles to what the date node with the same arguments
\* and options compiles to.
C21_FileCompilesAsDate ==
    (/\ call.fn = "constructPropertyType"
     /\ AppliedName(Types[call.input]) = Str("File"))
    => call.result = CompiledWith(AsDate(Types[call.input]), call.options)

\* A segment of `key:` form: an alphanumeric key and a colon at its start.
IsKeyForm(segment) == segment # <<>> /\ KeyEnd(segment, 1) # 0

\* The key of a segment of `key:` form.
KeyOfSegment(segment) == IF segment[1] = ":" THEN "" ELSE segment[1]

\* The text after the key and the colon of a segment, trimmed.
ValueOfSegment(segment) ==
    Trim(SubSeq(segment, KeyEnd(segment, 1), Len(segment)))

\* The description the first n segments leave: the text of the last prose
\* segment, or the value of a later `description:` segment; Undefined when
\* there is none.
RECURSIVE ClaimedDescription(_, _)
ClaimedDescription(optionsArray, n) ==
    IF n = 0 THEN Undefined
    ELSE IF ~IsKeyForm(optionsArray[n]) THEN StrVal(optionsArray[n])
    ELSE IF KeyOfSegment(optionsArray[n]) = "description"
    THEN StrVal(ValueOfSegment(optionsArray[n]))
    ELSE ClaimedDescription(optionsArray, n - 1)

\* The description the accumulator holds, Undefined when it holds none.
DescriptionOf(accumulator) ==
    IF Has(accumulator.store, "description")
    THEN accumulator.store.vals["description"] ELSE Undefined

\* C22: while optionsReducer folds, the description of the accumulator is
\* the full text of the last segment folded so far that is not of `key:`
\* form, or the value of a `description:` segment folded after it; a segment
\* of `key:` form with a key of neither vocabulary leaves it as it was.
C22_DescriptionIsLastProseSegment ==
    (call.fn = "optionsReducer" /\ ~IsThrow(call.result))
    => DescriptionOf(call.result.val) = ClaimedDescription(call.optionsArray, call.done)

\* A segment declares a scalar constraint keyword.
DeclaresParameter(segment) ==
    IsKeyForm(segment) /\ KeyOfSegment(segment) \in keywordsParameterKeys

\* The scalar constraints a store holds at its own level: the stored list of
\* each scalar constraint keyword.
ParametersOf(store) ==
    [key \in DOMAIN store.vals \cap keywordsParameterKeys |-> store.vals[key]]

\* One turn of the reduce, from the accumulator before to after, on a
\* segment that declares a scalar constraint while the composition keyword
\* before.level is open: the top level keeps its scalar constraints, the
\* nested option set of the open keyword receives the coerced value ahead of
\* its list for that keyword and keeps its other lists.
AccumulatedInOpenComposition(before, after, key) ==
    /\ after.level = before.level
    /\ ParametersOf(after.store) = ParametersOf(before.store)
    /\ Has(after.store.vals[before.level], key)
    /\ Len(after.store.vals[before.level].vals[key])
          = 1 + (IF Has(before.store.vals[before.level], key)
                 THEN Len(before.store.vals[before.level].vals[key]) ELSE 0)
    /\ \A other \in DOMAIN ParametersOf(before.store.vals[before.level]) :
          other # key =>
             ParametersOf(after.store.vals[before.level])[other]
                = ParametersOf(before.store.vals[before.level])[other]

\* C23: while optionsReducer folds, the open composition keyword is the one
\* value of level and it is among not, allOf, anyOf, oneOf; a scalar
\* constraint met while a composition keyword is open is accumulated in the
\* nested option set of that keyword and the scalar constraints of the top
\* level stay as they were, those accumulated before it was opened included.
C23_ScalarsGoToOpenComposition ==
    [][(/\ call.fn = "optionsReducer"
        /\ call'.fn = "optionsReducer"
        /\ call'.done = call.done + 1
        /\ ~IsThrow(call'.result))
       => /\ call'.result.val.level \in CompositionKeywords \cup {NoLevel}
          /\ call.result.val.level # NoLevel
                => ParametersOf(call'.result.val.store) = ParametersOf(call.result.val.store)
          /\ (/\ call.result.val.level # NoLevel
              /\ DeclaresParameter(call.optionsArray[call'.done]))
                => AccumulatedInOpenComposition(
                       call.result.val, call'.result.val,
                       KeyOfSegment(call.optionsArray[call'.done]))]_vars

\* C23 witness: maximum was accumulated at the top level, oneOf was opened,
\* and two declarations of minimum and one of maxItems are in the nested
\* option set of oneOf, the top level still holding maximum alone.
C23_ScalarsBeforeAndAfterOpening ==
    /\ call.fn = "optionsReducer"
    /\ call.done = 6
    /\ ~IsThrow(call.result)
    /\ call.result.val.level = "oneOf"
    /\ DOMAIN ParametersOf(call.result.val.store) = {"maximum"}
    /\ DOMAIN ParametersOf(call.result.val.store.vals["oneOf"]) = {"minimum", "maxItems"}
    /\ Len(call.result.val.store.vals["oneOf"].vals["minimum"]) = 2

IntegerKeywords ==
    {"minLength", "maxLength", "minItems", "maxItems", "minProperties", "maxProperties"}

NumberKeywords == {"minimum", "maximum", "multipleOf"}

\* The store the accumulator writes scalar constraints to: the nested option
\* set of the open composition keyword, or the top level.
OpenStore(accumulator) ==
    IF accumulator.level = NoLevel THEN accumulator.store
    ELSE accumulator.store.vals[accumulator.level]

\* The segment declares `<keyword>: n`, n a decimal integer.
DeclaresNumber(segment, keywords) ==
    /\ IsKeyForm(segment)
    /\ KeyOfSegment(segment) \in keywords
    /\ Len(ValueOfSegment(segment)) = 1
    /\ ValueOfSegment(segment)[1] \in DOMAIN NumberAtoms

\* C24: the value optionsReducer stores for the declaration `<keyword>: n`
\* it has just folded is the number n, for the integer keywords minLength,
\* maxLength, minItems, maxItems, minProperties, maxProperties as for
\* minimum, maximum and multipleOf.
C24_DeclaredNumbersAreStoredAsNumbers ==
    (/\ call.fn = "optionsReducer"
     /\ call.done >= 1
     /\ ~IsThrow(call.result)
     /\ DeclaresNumber(call.optionsArray[call.done], IntegerKeywords \cup NumberKeywords))
    => OpenStore(call.result.val).vals[KeyOfSegment(call.optionsArray[call.done])][1]
          = NumVal(NumberAtoms[ValueOfSegment(call.optionsArray[call.done])[1]])

\* The nodes directly under a node.
ChildrenOf(type) ==
    (IF "expression" \in DOMAIN type THEN {type.expression} ELSE {})
    \cup (IF "applications" \in DOMAIN type
          THEN {type.applications[i] : i \in 1..Len(type.applications)} ELSE {})
    \cup (IF "elements" \in DOMAIN type
          THEN {type.elements[i] : i \in 1..Len(type.elements)} ELSE {})

\* The strict sub-nodes of a node.
RECURSIVE SubNodes(_)
SubNodes(type) ==
    ChildrenOf(type) \cup UNION {SubNodes(child) : child \in ChildrenOf(type)}

\* The strict sub-nodes of the arguments of a frame: those of its type, and
\* its applications with theirs.  An absent child counts as one.
SubNodesOfArguments(frame) ==
    SubNodes(frame.type)
    \cup {frame.applications[i] : i \in 1..Len(frame.applications)}
    \cup UNION {SubNodes(frame.applications[i]) : i \in 1..Len(frame.applications)}
    \cup {Undefined}

\* C25: each recursive call made while constructPropertyType compiles a type
\* (a call of constructPropertyType by a constructor, or a call of a
\* constructor by itself) is made on a strict sub-node of the caller's
\* arguments, name-reference nodes named after a key of typeConstructors
\* included; so the calls end after finitely many.
C25_RecursiveCallsDescend ==
    [][(/\ call.fn = "typeConstructors"
        /\ call'.fn = "typeConstructors"
        /\ \/ call'.frame.fn = "constructPropertyType"
           \/ call'.frame.fn = call.frame.fn)
       => call'.frame.type \in SubNodesOfArguments(call.frame)]_vars

\* The scalar-constraint declarations of the segments from the i-th on, level
\* being the composition keyword open there: the keyword, the coerced value
\* and the composition keyword each was declared under.
RECURSIVE DeclarationsFrom(_, _, _)
DeclarationsFrom(optionsArray, i, level) ==
    IF i > Len(optionsArray) THEN {}
    ELSE IF IsKeyForm(optionsArray[i]) /\ KeyOfSegment(optionsArray[i]) \in CompositionKeywords
    THEN DeclarationsFrom(optionsArray, i + 1, KeyOfSegment(optionsArray[i]))
    ELSE IF DeclaresParameter(optionsArray[i])
    THEN {[key |-> KeyOfSegment(optionsArray[i]),
           value |-> keywordsParameter(KeyOfSegment(optionsArray[i]),
                                       IF ValueOfSegment(optionsArray[i]) = <<>> THEN Undefined
                                       ELSE StrVal(ValueOfSegment(optionsArray[i]))).val,
           level |-> level]}
         \cup DeclarationsFrom(optionsArray, i + 1, level)
    ELSE DeclarationsFrom(optionsArray, i + 1, level)

\* The container holds the single-key object {key: value}.
InContainer(options, container, key, value) ==
    /\ container \in DOMAIN options
    /\ "list" \in DOMAIN options[container]
    /\ \E i \in 1..Len(options[container].list) :
          /\ DOMAIN options[container].list[i] = {key}
          /\ options[container].list[i][key] = value

\* The options hold the declaration as a direct field or in the container.
DirectOrIn(options, container, key, value) ==
    \/ key \in DOMAIN options /\ options[key] = value
    \/ InContainer(options, container, key, value)

\* The options object holds the declaration where it was declared.
Kept(options, declaration) ==
    IF declaration.level = NoLevel
    THEN DirectOrIn(options, "anyOf", declaration.key, declaration.value)
    ELSE IF declaration.level = "not"
    THEN "not" \in DOMAIN options
         /\ DirectOrIn(options["not"], "anyOf", declaration.key, declaration.value)
    ELSE InContainer(options, declaration.level, declaration.key, declaration.value)

\* C26: every scalar-constraint declaration of a description, keyword and
\* coerced value, is in constructOptions(optionsReducer(description)): as a
\* direct field, or as a single-key object in the container of the
\* composition keyword it was declared under (anyOf for repeated top-level
\* declarations).
C26_NoDeclaredConstraintIsLost ==
    (call.fn = "constructOptions" /\ ~IsThrow(call.result))
    => \A declaration \in DeclarationsFrom(SplitBullets(Descriptions[call.input]), 1, NoLevel) :
          Kept(call.result.val, declaration)

=============================================================================
